---- MODULE Spec2Model ----
(***************************************************************************)
(* Model of the task synchronisation and persistence layer of TaskGenie:   *)
(* the App component's handlers (src/unnamed/part_002) over the data       *)
(* service (src/services/dataService.ts, lines 1-261).                     *)
(*                                                                         *)
(* Conventions.                                                            *)
(*  - An optional value (null in the code) is a sequence of length 0 or 1. *)
(*  - A Task is a record with the twelve fields of the Task interface; a   *)
(*    remote row is a function from column names to values, and a column   *)
(*    that is null or missing is a column outside its DOMAIN.  A field     *)
(*    whose value is undefined in the code is a field outside the DOMAIN   *)
(*    of the record.                                                       *)
(*  - dueDate is the instant the ISO string denotes (Date.getTime()).      *)
(*  - A remote call is in flight from the step that issues it to the step  *)
(*    in which the store answers; the store applies the request and the    *)
(*    handler's continuation runs in that one step.  Requests in flight    *)
(*    are answered in any order.  A failed request changes nothing in the  *)
(*    store.                                                               *)
(*  - In local mode no call suspends on the network, so a handler runs to  *)
(*    its end in one step.                                                 *)
(***************************************************************************)
EXTENDS Integers, Sequences, FiniteSets, TLC

VARIABLES
    isCloudEnabled, \* dataService.ts:4, fixed for the process lifetime
    user,           \* part_002:15, optional User
    tasks,          \* part_002:19, the in-memory collection
    editingTask,    \* part_002:25, optional Task
    isTaskModalOpen,\* part_002:23
    confirmModal,   \* part_002:30, optional closure awaiting Confirm / Cancel
    db,             \* the remote 'tasks' table: sequence of rows
    localStore,     \* localStorage: optional task list of the active user
    pending,        \* handlers suspended on a remote call
    nextId,         \* source of crypto.randomUUID() values
    opsLeft,        \* operations the user may still start
    anyFailed,      \* history: some remote call has failed
    overlapped,     \* history: an operation started while another was unfinished
    lastEvent,      \* history: what the last step did
    probe,          \* argument and result of a conversion under test
    selectedTaskIds \* part_002:20, the ids ticked for a bulk action

vars == <<isCloudEnabled, user, tasks, editingTask, isTaskModalOpen, confirmModal,
          db, localStore, pending, nextId, opsLeft, anyFailed, overlapped,
          lastEvent, probe, selectedTaskIds>>

-----------------------------------------------------------------------------
(* Bounds *)

MaxOps == 2        \* operations started in one behaviour
MaxLen == 3        \* length of the collections drawn for renumbering

-----------------------------------------------------------------------------
(* Task model: types at src/components/ConfirmationModal.tsx:77-109 *)

Priority == {"Low", "Medium", "High", "Urgent"}
Status == {"Pending", "In Progress", "Completed"}

Null == <<>>
Some(x) == <<x>>

RangeOf(s) == {s[i] : i \in DOMAIN s}
IdsOf(s) == {s[i].id : i \in DOMAIN s}

TheUser == [id |-> "u1"]

-----------------------------------------------------------------------------
(* Normalisation: dataService.ts saveTask (215-229) and fetchTasks (191-204) *)

\* A faulty dbTask that loses the progress notes.
ToStorage_DropNotes(u, task) ==
    [id |-> task.id,
     user_id |-> u.id,
     title |-> task.title,
     serial_number |-> task.serialNumber,
     description |-> task.description,
     priority |-> task.priority,
     status |-> task.status,
     due_date |-> task.dueDate,
     created_at |-> task.createdAt,
     subtasks |-> task.subtasks,
     tags |-> task.tags,
     images |-> task.images,
     progress_notes |-> ""]

\* saveTask's dbTask: the remote row of a task owned by u.
ToStorage(u, task) ==
    [id |-> task.id,
     user_id |-> u.id,
     title |-> task.title,
     serial_number |-> task.serialNumber,
     description |-> task.description,
     priority |-> task.priority,
     status |-> task.status,
     due_date |-> task.dueDate,
     created_at |-> task.createdAt,
     subtasks |-> task.subtasks,
     tags |-> task.tags,
     images |-> task.images,
     progress_notes |-> task.progressNotes]

\* The column fetchTasks reads for each field of the Task it builds.
ColumnOf(field) ==
    CASE field = "id" -> "id"
      [] field = "serialNumber" -> "serial_number"
      [] field = "title" -> "title"
      [] field = "description" -> "description"
      [] field = "priority" -> "priority"
      [] field = "status" -> "status"
      [] field = "dueDate" -> "due_date"
      [] field = "createdAt" -> "created_at"
      [] field = "subtasks" -> "subtasks"
      [] field = "tags" -> "tags"
      [] field = "images" -> "images"
      [] field = "progressNotes" -> "progress_notes"

CopiedFields ==
    {"id", "serialNumber", "title", "description", "priority", "status",
     "dueDate", "createdAt"}
ListFields == {"subtasks", "tags", "images"}

\* fetchTasks' row mapping: t.x for the copied fields (undefined when the
\* column is missing), t.x || [] for the lists, t.progress_notes || ''.
\* It raises nothing, whatever the row lacks.
ToCanonical(t) ==
    [field \in {f \in CopiedFields : ColumnOf(f) \in DOMAIN t}
               \cup ListFields \cup {"progressNotes"} |->
        IF ColumnOf(field) \in DOMAIN t THEN t[ColumnOf(field)]
        ELSE IF field \in ListFields THEN <<>>
        ELSE ""]

\* The outcome of converting one row, as the caller of fetchTasks sees it.
ConvertRow(t) == [kind |-> "task", task |-> ToCanonical(t)]

-----------------------------------------------------------------------------
(* The remote table: dataService.ts:231, 251, 258 *)

\* A faulty upsert: a plain insert, whatever the table holds.
Upsert_Insert(rows, row) == Append(rows, row)

\* upsert(dbTask, { onConflict: 'id' }): overwrite the row of that id, or insert.
Upsert(rows, row) ==
    IF \E i \in DOMAIN rows : rows[i].id = row.id
    THEN [i \in DOMAIN rows |-> IF rows[i].id = row.id THEN row ELSE rows[i]]
    ELSE Append(rows, row)

\* A faulty delete that removes nothing.
DeleteById_Keep(rows, taskId) == rows

\* delete().eq('id', taskId)
DeleteById(rows, taskId) == SelectSeq(rows, LAMBDA r : r.id # taskId)

\* select('*').eq('user_id', user.id), then the row mapping
FetchRows(rows, u) ==
    LET mine == SelectSeq(rows, LAMBDA r : r.user_id = u.id)
    IN  [i \in DOMAIN mine |-> ToCanonical(mine[i])]

-----------------------------------------------------------------------------
(* Renumbering: part_002 handleAutoRenumber, 279-300 *)

priorityWeight ==
    [p \in Priority |->
        CASE p = "Urgent" -> 4 [] p = "High" -> 3 [] p = "Medium" -> 2 [] p = "Low" -> 1]

\* A faulty comparator that ignores the due date.
CompareTasks_NoDueDate(a, b) == priorityWeight[b.priority] - priorityWeight[a.priority]

\* The comparator of the sort: priority descending, then due date ascending.
CompareTasks(a, b) ==
    LET pDiff == priorityWeight[b.priority] - priorityWeight[a.priority]
    IN  IF pDiff # 0 THEN pDiff ELSE a.dueDate - b.dueDate

\* x placed in the sorted sequence acc behind every element it does not precede.
InsertSorted(acc, x) ==
    LET before == {i \in DOMAIN acc : CompareTasks(x, acc[i]) < 0}
    IN  IF before = {} THEN Append(acc, x)
        ELSE LET k == CHOOSE i \in before : \A j \in before : i <= j
             IN  SubSeq(acc, 1, k - 1) \o <<x>> \o SubSeq(acc, k, Len(acc))

\* Array.prototype.sort with that comparator: a stable sort.
RECURSIVE SortStable(_)
SortStable(s) ==
    IF s = <<>> THEN <<>>
    ELSE InsertSorted(SortStable(SubSeq(s, 1, Len(s) - 1)), s[Len(s)])

sortedTasks(ts) == SortStable(ts)

\* A faulty numbering that starts at 0.
renumberedTasks_ZeroBased(ts) ==
    LET sorted == sortedTasks(ts)
    IN  [i \in DOMAIN sorted |-> [sorted[i] EXCEPT !.serialNumber = i - 1]]

renumberedTasks(ts) ==
    LET sorted == sortedTasks(ts)
    IN  [i \in DOMAIN sorted |-> [sorted[i] EXCEPT !.serialNumber = i]]

-----------------------------------------------------------------------------
(* The task form: TaskForm.tsx useEffect (30-49) and handleSubmit (90-107) *)

\* What the form holds when the user presses Save: the title field, a
\* priority ("" keeps the prefilled one), a serial number (0 keeps the
\* prefilled one), and whether one subtask line is added.
FormInputs(editing) ==
    {[title |-> "t", priority |-> "Urgent", serialNumber |-> 1, addSubtask |-> TRUE]}
    \cup (IF editing THEN {}
          ELSE {[title |-> "t", priority |-> "", serialNumber |-> 0, addSubtask |-> FALSE]})

\* The same with the title field left or made empty.
BlankTitleInputs == {[title |-> "", priority |-> "", serialNumber |-> 0, addSubtask |-> FALSE]}

\* A form that lets every title through.
FormValid_Any(input) == TRUE

\* The browser's constraint validation of the form: the title input is
\* required (TaskForm.tsx:138), so onSubmit runs only when it is not empty.
FormValid(input) == input.title # ""

\* part_002:815
suggestedSerialNumber(ts) ==
    IF Len(ts) > 0
    THEN (CHOOSE m \in {ts[i].serialNumber : i \in DOMAIN ts} :
             \A i \in DOMAIN ts : ts[i].serialNumber <= m) + 1
    ELSE 1

\* The taskData handed to onSubmit: the fields prefilled from initialTask (or
\* the defaults of a new task), overridden by the input; every subtask line
\* becomes a subtask with a fresh id, not completed.  firstId is the first
\* unused id; now is the day of the submit.
FormData(initialTask, suggested, input, firstId, now) ==
    LET editing == initialTask # Null
        init == initialTask[1]
        lines == (IF editing THEN [i \in DOMAIN init.subtasks |-> init.subtasks[i].title]
                  ELSE <<>>)
                 \o (IF input.addSubtask THEN <<"s">> ELSE <<>>)
    IN  [title |-> input.title,
         serialNumber |-> IF input.serialNumber # 0 THEN input.serialNumber
                          ELSE IF editing THEN init.serialNumber ELSE suggested,
         description |-> IF editing THEN init.description ELSE "",
         priority |-> IF input.priority # "" THEN input.priority
                      ELSE IF editing THEN init.priority ELSE "Medium",
         status |-> IF editing THEN init.status ELSE "Pending",
         dueDate |-> IF editing THEN init.dueDate ELSE now + 1,
         subtasks |-> [i \in DOMAIN lines |->
                          [id |-> firstId + i - 1, title |-> lines[i], isCompleted |-> FALSE]],
         tags |-> IF editing THEN init.tags ELSE <<>>,
         progressNotes |-> IF editing THEN init.progressNotes ELSE "",
         images |-> IF editing THEN init.images ELSE <<>>]

\* A spread that stamps the result with the time of the call.
Spread_Restamped(a, b) ==
    [f \in DOMAIN a \cup DOMAIN b |->
        IF f = "createdAt" THEN MaxOps - opsLeft
        ELSE IF f \in DOMAIN b THEN b[f] ELSE a[f]]

\* { ...a, ...b }
Spread(a, b) ==
    [f \in DOMAIN a \cup DOMAIN b |-> IF f \in DOMAIN b THEN b[f] ELSE a[f]]

-----------------------------------------------------------------------------
(* State *)

Now == MaxOps - opsLeft

NoModal == ~isTaskModalOpen /\ confirmModal = Null

MkTask(id, serial, priority, status, due, subtasks) ==
    [id |-> id, serialNumber |-> serial, title |-> "t", description |-> "",
     priority |-> priority, status |-> status, dueDate |-> due, createdAt |-> 0,
     subtasks |-> subtasks, tags |-> <<>>, images |-> <<>>, progressNotes |-> ""]

\* Collections a user may already have persisted when the session starts.
StoredCollections ==
    {<<>>,
     <<MkTask(1, 1, "Low", "Pending", 2, <<[id |-> 3, title |-> "s", isCompleted |-> FALSE]>>),
       MkTask(2, 2, "Urgent", "Completed", 1, <<>>)>>}

\* What the last step of an operation did (opening and closing a modal is no
\* such step): the operation, how far it got, whether it raised an alert
\* to the user, whether it wrote to the console, and the values it handled.
Event(op, phase, alert, log, data) ==
    [op |-> op, phase |-> phase, alert |-> alert, log |-> log, data |-> data]

\* The state once the user is logged in and loadUserData has set the tasks
\* fetched from the store (part_002:73-91).
Init ==
    /\ isCloudEnabled \in BOOLEAN
    /\ user = Some(TheUser)
    /\ tasks \in StoredCollections
    /\ editingTask = Null
    /\ isTaskModalOpen = FALSE
    /\ confirmModal = Null
    /\ db = IF isCloudEnabled THEN [i \in DOMAIN tasks |-> ToStorage(TheUser, tasks[i])]
            ELSE <<>>
    /\ localStore = IF isCloudEnabled \/ tasks = <<>> THEN Null ELSE Some(tasks)
    /\ pending = {}
    /\ nextId = 4
    /\ opsLeft = MaxOps
    /\ anyFailed = FALSE
    /\ overlapped = FALSE
    /\ lastEvent = Event("load", "done", FALSE, FALSE, Null)
    /\ probe = Null
    /\ selectedTaskIds = {}

-----------------------------------------------------------------------------
(* Modals: part_002 openCreateModal, openEditModal, closeTaskModal (315-328) *)

openCreateModal ==
    /\ NoModal
    /\ editingTask' = Null
    /\ isTaskModalOpen' = TRUE
    /\ UNCHANGED <<isCloudEnabled, user, tasks, confirmModal, db, localStore, pending,
                   nextId, opsLeft, anyFailed, overlapped, lastEvent, probe,
                   selectedTaskIds>>

openEditModal(task) ==
    /\ NoModal
    /\ editingTask' = Some(task)
    /\ isTaskModalOpen' = TRUE
    /\ overlapped' = (overlapped \/ pending # {})
    /\ UNCHANGED <<isCloudEnabled, user, tasks, confirmModal, db, localStore, pending,
                   nextId, opsLeft, anyFailed, lastEvent, probe,
                   selectedTaskIds>>

\* The form's Cancel, the modal's X, or the Escape key.
closeTaskModal ==
    /\ isTaskModalOpen
    /\ isTaskModalOpen' = FALSE
    /\ editingTask' = Null
    /\ UNCHANGED <<isCloudEnabled, user, tasks, confirmModal, db, localStore, pending,
                   nextId, opsLeft, anyFailed, overlapped, lastEvent, probe,
                   selectedTaskIds>>

\* ConfirmationModal's Cancel button: onClose alone.
cancelConfirm ==
    /\ confirmModal # Null
    /\ confirmModal' = Null
    /\ UNCHANGED <<isCloudEnabled, user, tasks, editingTask, isTaskModalOpen, db,
                   localStore, pending, nextId, opsLeft, anyFailed, overlapped, lastEvent, probe,
                   selectedTaskIds>>

-----------------------------------------------------------------------------
(* handleCreateOrUpdateTask: part_002:134-173 *)

\* The part up to the await of saveTask.  In local mode saveTask does nothing
\* and the handler runs on: setTasks, saveAllTasks, closeTaskModal.
handleCreateOrUpdateTask(input) ==
    /\ isTaskModalOpen
    /\ FormValid(input)
    /\ user # Null
    /\ opsLeft > 0
    /\ LET taskData == FormData(editingTask, suggestedSerialNumber(tasks), input,
                                nextId + 1, Now)
           editing == editingTask # Null
           saved == IF editing THEN Spread(editingTask[1], taskData)
                    ELSE Spread(taskData, [id |-> nextId, createdAt |-> Now])
           updatedTasks ==
               IF editing
               THEN [i \in DOMAIN tasks |->
                        IF tasks[i].id = editingTask[1].id THEN saved ELSE tasks[i]]
               ELSE Append(tasks, saved)
           op == IF editing THEN "update" ELSE "create"
       IN  /\ nextId' = nextId + 1 + Len(taskData.subtasks)
           /\ IF isCloudEnabled
              THEN /\ pending' = pending \cup
                         {[op |-> op, seq |-> Now, user |-> user[1], task |-> saved,
                           updatedTasks |-> updatedTasks]}
                   /\ lastEvent' = Event(op, "start", FALSE, FALSE, [id |-> saved.id])
                   /\ UNCHANGED <<tasks, localStore, isTaskModalOpen, editingTask>>
              ELSE /\ tasks' = updatedTasks
                   /\ localStore' = Some(updatedTasks)
                   /\ isTaskModalOpen' = FALSE
                   /\ editingTask' = Null
                   /\ lastEvent' = Event(op, "done", FALSE, FALSE, [id |-> saved.id])
                   /\ UNCHANGED pending
    /\ opsLeft' = opsLeft - 1
    /\ overlapped' = (overlapped \/ pending # {})
    /\ UNCHANGED <<isCloudEnabled, user, confirmModal, db, anyFailed, probe,
                   selectedTaskIds>>

\* Save pressed on a form the browser does not accept: it shows its validation
\* message, no submit event is raised and no handler runs.
submitRejected(input) ==
    /\ isTaskModalOpen
    /\ ~FormValid(input)
    /\ lastEvent' = Event(IF editingTask # Null THEN "update" ELSE "create", "rejected",
                          FALSE, FALSE, Null)
    /\ UNCHANGED <<isCloudEnabled, user, tasks, editingTask, isTaskModalOpen, confirmModal,
                   db, localStore, pending, nextId, opsLeft, anyFailed, overlapped, probe,
                   selectedTaskIds>>

\* saveTask resolved: the row is upserted; setTasks(updatedTasks); closeTaskModal.
submitSaved(p) ==
    /\ p \in pending /\ p.op \in {"create", "update"}
    /\ db' = Upsert(db, ToStorage(p.user, p.task))
    /\ tasks' = p.updatedTasks
    /\ isTaskModalOpen' = FALSE
    /\ editingTask' = Null
    /\ pending' = pending \ {p}
    /\ lastEvent' = Event(p.op, "done", FALSE, FALSE, [id |-> p.task.id])
    /\ UNCHANGED <<isCloudEnabled, user, confirmModal, localStore, nextId, opsLeft,
                   anyFailed, overlapped, probe,
                   selectedTaskIds>>

\* A faulty handler that puts the new collection in memory although the save failed.
submitFailed_Optimistic(p) ==
    /\ p \in pending /\ p.op \in {"create", "update"}
    /\ tasks' = p.updatedTasks
    /\ pending' = pending \ {p}
    /\ anyFailed' = TRUE
    /\ lastEvent' = Event(p.op, "failed", TRUE, TRUE, [id |-> p.task.id])
    /\ UNCHANGED <<isCloudEnabled, user, editingTask, isTaskModalOpen,
                   confirmModal, db, localStore, nextId, opsLeft, overlapped, probe,
                   selectedTaskIds>>

\* saveTask threw: console.error in saveTask, alert(e.message), return.
submitFailed(p) ==
    /\ p \in pending /\ p.op \in {"create", "update"}
    /\ pending' = pending \ {p}
    /\ anyFailed' = TRUE
    /\ lastEvent' = Event(p.op, "failed", TRUE, TRUE, [id |-> p.task.id])
    /\ UNCHANGED <<isCloudEnabled, user, tasks, editingTask, isTaskModalOpen,
                   confirmModal, db, localStore, nextId, opsLeft, overlapped, probe,
                   selectedTaskIds>>

-----------------------------------------------------------------------------
(* handleToggleStatus (218-237) and handleToggleSubtask (239-252) *)

\* The task a card button passes to onToggleStatus (TaskCard.tsx:108-125):
\* the card's task itself, or a copy with the status the button asks for.
CardStatusArgs(t) ==
    {t}
    \cup (IF t.status = "Pending" THEN {[t EXCEPT !.status = "In Progress"]} ELSE {})
    \cup (IF t.status = "In Progress" THEN {[t EXCEPT !.status = "Pending"]} ELSE {})

\* A faulty rule that ignores the status the button asks for.
newStatus_AlwaysToggle(task, currentTask) ==
    IF currentTask.status = "Completed" THEN "Pending" ELSE "Completed"

newStatus(task, currentTask) ==
    IF task.status = currentTask.status
    THEN IF task.status = "Completed" THEN "Pending" ELSE "Completed"
    ELSE task.status

\* The common tail of the two toggles: setTasks(updatedTasks), then saveTask
\* (awaited in remote mode), then saveAllTasks in local mode.
applyEdit(op, updatedTask, data) ==
    LET updatedTasks == [i \in DOMAIN tasks |->
                            IF tasks[i].id = updatedTask.id THEN updatedTask ELSE tasks[i]]
    IN  /\ tasks' = updatedTasks
        /\ IF isCloudEnabled
           THEN /\ pending' = pending \cup
                      {[op |-> op, seq |-> Now, user |-> user[1], task |-> updatedTask]}
                /\ lastEvent' = Event(op, "start", FALSE, FALSE, data)
                /\ UNCHANGED localStore
           ELSE /\ localStore' = Some(updatedTasks)
                /\ lastEvent' = Event(op, "done", FALSE, FALSE, data)
                /\ UNCHANGED pending
        /\ opsLeft' = opsLeft - 1
        /\ overlapped' = (overlapped \/ pending # {})
        /\ UNCHANGED <<isCloudEnabled, user, editingTask, isTaskModalOpen, confirmModal,
                       db, nextId, anyFailed, probe,
                   selectedTaskIds>>

\* A toggle called with the id of no task: the handler returns at once.
ignoreEdit(op, data) ==
    /\ lastEvent' = Event(op, "ignored", FALSE, FALSE, data)
    /\ UNCHANGED <<isCloudEnabled, user, tasks, editingTask, isTaskModalOpen, confirmModal,
                   db, localStore, pending, nextId, opsLeft, anyFailed, overlapped, probe,
                   selectedTaskIds>>

handleToggleStatus(task) ==
    /\ NoModal
    /\ user # Null
    /\ LET data == [id |-> task.id, status |-> task.status]
       IN  IF task.id \in IdsOf(tasks)
           THEN /\ opsLeft > 0
                /\ \E i \in DOMAIN tasks :
                      /\ tasks[i].id = task.id
                      /\ applyEdit("toggleStatus",
                                   [task EXCEPT !.status = newStatus(task, tasks[i])], data)
           ELSE ignoreEdit("toggleStatus", data)

\* A faulty toggle that completes the parent once all its subtasks are completed.
toggledSubtask_ParentFollows(task, subtaskId) ==
    LET newSubtasks ==
            [k \in DOMAIN task.subtasks |->
                IF task.subtasks[k].id = subtaskId
                THEN [task.subtasks[k] EXCEPT !.isCompleted = ~@]
                ELSE task.subtasks[k]]
    IN  [task EXCEPT !.subtasks = newSubtasks,
                     !.status = IF \A k \in DOMAIN newSubtasks : newSubtasks[k].isCompleted
                                THEN "Completed" ELSE @]

\* { ...task, subtasks: newSubtasks }
toggledSubtask(task, subtaskId) ==
    LET newSubtasks ==
            [k \in DOMAIN task.subtasks |->
                IF task.subtasks[k].id = subtaskId
                THEN [task.subtasks[k] EXCEPT !.isCompleted = ~@]
                ELSE task.subtasks[k]]
    IN  [task EXCEPT !.subtasks = newSubtasks]

handleToggleSubtask(taskId, subtaskId) ==
    /\ NoModal
    /\ user # Null
    /\ LET data == [id |-> taskId, subtaskId |-> subtaskId]
       IN  IF taskId \in IdsOf(tasks)
           THEN /\ opsLeft > 0
                /\ \E i \in DOMAIN tasks :
                      /\ tasks[i].id = taskId
                      /\ applyEdit("toggleSubtask", toggledSubtask(tasks[i], subtaskId), data)
           ELSE ignoreEdit("toggleSubtask", data)

\* saveTask resolved: the row is upserted; nothing follows it in remote mode.
editSaved(p) ==
    /\ p \in pending /\ p.op \in {"toggleStatus", "toggleSubtask"}
    /\ db' = Upsert(db, ToStorage(p.user, p.task))
    /\ pending' = pending \ {p}
    /\ lastEvent' = Event(p.op, "done", FALSE, FALSE, [id |-> p.task.id])
    /\ UNCHANGED <<isCloudEnabled, user, tasks, editingTask, isTaskModalOpen,
                   confirmModal, localStore, nextId, opsLeft, anyFailed, overlapped, probe,
                   selectedTaskIds>>

\* A faulty handler that raises an alert when the save of a toggle failed.
editFailed_Alert(p) ==
    /\ p \in pending /\ p.op \in {"toggleStatus", "toggleSubtask"}
    /\ pending' = pending \ {p}
    /\ anyFailed' = TRUE
    /\ lastEvent' = Event(p.op, "failed", TRUE, TRUE, [id |-> p.task.id])
    /\ UNCHANGED <<isCloudEnabled, user, tasks, editingTask, isTaskModalOpen,
                   confirmModal, db, localStore, nextId, opsLeft, overlapped, probe,
                   selectedTaskIds>>

\* saveTask threw: console.error in saveTask; the handler's promise rejects and
\* nobody handles it.
editFailed(p) ==
    /\ p \in pending /\ p.op \in {"toggleStatus", "toggleSubtask"}
    /\ pending' = pending \ {p}
    /\ anyFailed' = TRUE
    /\ lastEvent' = Event(p.op, "failed", FALSE, TRUE, [id |-> p.task.id])
    /\ UNCHANGED <<isCloudEnabled, user, tasks, editingTask, isTaskModalOpen,
                   confirmModal, db, localStore, nextId, opsLeft, overlapped, probe,
                   selectedTaskIds>>

-----------------------------------------------------------------------------
(* handleDeleteTask: part_002:175-196, dataService.ts deleteTask 249-254 *)

\* confirmAction: the closure passed as onConfirm keeps the tasks and the user
\* of the render in which the handler was called.
handleDeleteTask(id) ==
    /\ NoModal
    /\ user # Null
    /\ confirmModal' = Some([op |-> "deleteOne", id |-> id, tasks |-> tasks, user |-> user[1]])
    /\ overlapped' = (overlapped \/ pending # {})
    /\ UNCHANGED <<isCloudEnabled, user, tasks, editingTask, isTaskModalOpen, db,
                   localStore, pending, nextId, opsLeft, anyFailed, lastEvent, probe,
                   selectedTaskIds>>

\* Confirm: setTasks(updatedTasks), then deleteTask (awaited in remote mode),
\* then saveAllTasks in local mode; onClose.
confirmDelete ==
    /\ confirmModal # Null /\ confirmModal[1].op = "deleteOne"
    /\ opsLeft > 0
    /\ LET c == confirmModal[1]
           updatedTasks == SelectSeq(c.tasks, LAMBDA t : t.id # c.id)
       IN  /\ tasks' = updatedTasks
           /\ IF isCloudEnabled
              THEN /\ pending' = pending \cup {[op |-> "deleteOne", seq |-> Now, id |-> c.id]}
                   /\ lastEvent' = Event("deleteOne", "start", FALSE, FALSE,
                                         [id |-> c.id])
                   /\ UNCHANGED localStore
              ELSE /\ localStore' = Some(updatedTasks)
                   /\ lastEvent' = Event("deleteOne", "done", FALSE, FALSE,
                                         [id |-> c.id])
                   /\ UNCHANGED pending
    /\ confirmModal' = Null
    /\ opsLeft' = opsLeft - 1
    /\ overlapped' = (overlapped \/ pending # {})
    /\ UNCHANGED <<isCloudEnabled, user, editingTask, isTaskModalOpen, db, nextId,
                   anyFailed, probe,
                   selectedTaskIds>>

\* The delete went through.
deleteDone(p) ==
    /\ p \in pending /\ p.op = "deleteOne"
    /\ db' = DeleteById(db, p.id)
    /\ pending' = pending \ {p}
    /\ lastEvent' = Event("deleteOne", "done", FALSE, FALSE, [id |-> p.id])
    /\ UNCHANGED <<isCloudEnabled, user, tasks, editingTask, isTaskModalOpen,
                   confirmModal, localStore, nextId, opsLeft, anyFailed, overlapped, probe,
                   selectedTaskIds>>

\* The delete failed: deleteTask writes console.error and returns normally.
deleteFailed(p) ==
    /\ p \in pending /\ p.op = "deleteOne"
    /\ pending' = pending \ {p}
    /\ anyFailed' = TRUE
    /\ lastEvent' = Event("deleteOne", "failed", FALSE, TRUE, [id |-> p.id])
    /\ UNCHANGED <<isCloudEnabled, user, tasks, editingTask, isTaskModalOpen,
                   confirmModal, db, localStore, nextId, opsLeft, overlapped, probe,
                   selectedTaskIds>>

-----------------------------------------------------------------------------
(* handleAutoRenumber: part_002:271-313 *)

handleAutoRenumber ==
    /\ NoModal
    /\ user # Null
    /\ confirmModal' = Some([op |-> "renumber", tasks |-> tasks, user |-> user[1]])
    /\ overlapped' = (overlapped \/ pending # {})
    /\ UNCHANGED <<isCloudEnabled, user, tasks, editingTask, isTaskModalOpen, db,
                   localStore, pending, nextId, opsLeft, anyFailed, lastEvent, probe,
                   selectedTaskIds>>

\* Confirm: sort, renumber, setTasks(renumberedTasks); in remote mode the loop
\* awaits saveTask of the first task, in local mode saveAllTasks; onClose.
confirmRenumber ==
    /\ confirmModal # Null /\ confirmModal[1].op = "renumber"
    /\ opsLeft > 0
    /\ LET c == confirmModal[1]
           renumbered == renumberedTasks(c.tasks)
           data == Null
       IN  /\ tasks' = renumbered
           /\ IF isCloudEnabled /\ renumbered # <<>>
              THEN /\ pending' = pending \cup
                         {[op |-> "renumber", seq |-> Now, user |-> c.user,
                           target |-> renumbered, next |-> 1]}
                   /\ lastEvent' = Event("renumber", "start", FALSE, FALSE, data)
                   /\ UNCHANGED localStore
              ELSE /\ localStore' = IF isCloudEnabled THEN localStore ELSE Some(renumbered)
                   /\ lastEvent' = Event("renumber", "done", FALSE, FALSE, data)
                   /\ UNCHANGED pending
    /\ confirmModal' = Null
    /\ opsLeft' = opsLeft - 1
    /\ overlapped' = (overlapped \/ pending # {})
    /\ UNCHANGED <<isCloudEnabled, user, editingTask, isTaskModalOpen, db, nextId,
                   anyFailed, probe,
                   selectedTaskIds>>

\* One saveTask of the loop resolved: the row is upserted and the loop awaits
\* the next task's saveTask, or ends.
renumberSaved(p) ==
    /\ p \in pending /\ p.op = "renumber"
    /\ db' = Upsert(db, ToStorage(p.user, p.target[p.next]))
    /\ LET data == Null
       IN  IF p.next < Len(p.target)
           THEN /\ pending' = (pending \ {p}) \cup {[p EXCEPT !.next = @ + 1]}
                /\ lastEvent' = Event("renumber", "saving", FALSE, FALSE, data)
           ELSE /\ pending' = pending \ {p}
                /\ lastEvent' = Event("renumber", "done", FALSE, FALSE, data)
    /\ UNCHANGED <<isCloudEnabled, user, tasks, editingTask, isTaskModalOpen,
                   confirmModal, localStore, nextId, opsLeft, anyFailed, overlapped, probe,
                   selectedTaskIds>>

\* One saveTask of the loop threw: the loop is left, the remaining tasks are
\* not saved, the rejection is not handled.
renumberFailed(p) ==
    /\ p \in pending /\ p.op = "renumber"
    /\ pending' = pending \ {p}
    /\ anyFailed' = TRUE
    /\ lastEvent' = Event("renumber", "failed", FALSE, TRUE, Null)
    /\ UNCHANGED <<isCloudEnabled, user, tasks, editingTask, isTaskModalOpen,
                   confirmModal, db, localStore, nextId, opsLeft, overlapped, probe,
                   selectedTaskIds>>

-----------------------------------------------------------------------------
(* The specification of the session *)

Next ==
    \/ openCreateModal
    \/ \E i \in DOMAIN tasks : openEditModal(tasks[i])
    \/ closeTaskModal
    \/ cancelConfirm
    \/ \E input \in FormInputs(editingTask # Null) : handleCreateOrUpdateTask(input)
    \/ \E p \in pending : submitSaved(p)
    \/ \E p \in pending : submitFailed(p)
    \/ \E i \in DOMAIN tasks : \E arg \in CardStatusArgs(tasks[i]) : handleToggleStatus(arg)
    \/ \E i \in DOMAIN tasks : \E k \in DOMAIN tasks[i].subtasks :
          handleToggleSubtask(tasks[i].id, tasks[i].subtasks[k].id)
    \/ \E p \in pending : editSaved(p)
    \/ \E p \in pending : editFailed(p)
    \/ \E i \in DOMAIN tasks : handleDeleteTask(tasks[i].id)
    \/ confirmDelete
    \/ \E p \in pending : deleteDone(p)
    \/ \E p \in pending : deleteFailed(p)
    \/ handleAutoRenumber
    \/ confirmRenumber
    \/ \E p \in pending : renumberSaved(p)
    \/ \E p \in pending : renumberFailed(p)

Spec == Init /\ [][Next]_vars

-----------------------------------------------------------------------------
(* Renumbering alone: one renumber of a collection drawn from a bounded set *)

\* How the serial numbers stood before: all equal, or descending with gaps.
SerialPatterns == {"equal", "descending"}

RenumberInputs(n) ==
    {[i \in 1..n |->
         MkTask(i, IF pat = "equal" THEN 7 ELSE 2 * (n - i) + 3,
                pr[i], "Pending", due[i], <<>>)] :
       pr \in [1..n -> Priority], due \in [1..n -> {1, 2}], pat \in SerialPatterns}

InitRenumber ==
    /\ isCloudEnabled \in BOOLEAN
    /\ user = Some(TheUser)
    /\ \E n \in 0..MaxLen : tasks \in RenumberInputs(n)
    /\ editingTask = Null
    /\ isTaskModalOpen = FALSE
    /\ confirmModal = Null
    /\ db = IF isCloudEnabled THEN [i \in DOMAIN tasks |-> ToStorage(TheUser, tasks[i])]
            ELSE <<>>
    /\ localStore = IF isCloudEnabled \/ tasks = <<>> THEN Null ELSE Some(tasks)
    /\ pending = {}
    /\ nextId = Len(tasks) + 1
    /\ opsLeft = 1
    /\ anyFailed = FALSE
    /\ overlapped = FALSE
    /\ lastEvent = Event("load", "done", FALSE, FALSE, Null)
    /\ probe = Some(tasks)
    /\ selectedTaskIds = {}

NextRenumber ==
    \/ handleAutoRenumber
    \/ cancelConfirm
    \/ confirmRenumber
    \/ \E p \in pending : renumberSaved(p)
    \/ \E p \in pending : renumberFailed(p)

SpecRenumber == InitRenumber /\ [][NextRenumber]_vars

-----------------------------------------------------------------------------
(* The conversions alone: Task -> row -> Task, and row -> Task *)

SampleSubtask == [id |-> 9, title |-> "s", isCompleted |-> TRUE]

\* Valid tasks: every field of the Task interface present, each field drawn
\* from two values, the lists and the notes possibly empty.
ValidTasks ==
    [id : {1, 2}, serialNumber : {1, 2}, title : {"t", "u"}, description : {"", "d"},
     priority : {"Low", "High"}, status : {"Pending", "Completed"}, dueDate : {1, 2},
     createdAt : {0, 1}, subtasks : {<<>>, <<SampleSubtask>>}, tags : {<<>>, <<"x">>},
     images : {<<>>, <<"img">>}, progressNotes : {"", "n"}]

Without(row, cols) == [c \in DOMAIN row \ cols |-> row[c]]

\* Remote rows: the row of a task, with any of these columns null or missing.
RemoteRows ==
    {Without(ToStorage(TheUser, t), cols) :
        t \in {MkTask(1, 1, "Low", "Pending", 1, <<SampleSubtask>>),
               [MkTask(2, 5, "High", "Completed", 2, <<>>) EXCEPT
                   !.tags = <<"x">>, !.images = <<"img">>, !.progressNotes = "n"]},
        cols \in SUBSET {"id", "title", "subtasks", "tags", "images", "progress_notes"}}

InitNorm ==
    /\ isCloudEnabled = TRUE
    /\ user = Some(TheUser)
    /\ tasks = <<>>
    /\ editingTask = Null
    /\ isTaskModalOpen = FALSE
    /\ confirmModal = Null
    /\ db = <<>>
    /\ localStore = Null
    /\ pending = {}
    /\ nextId = 1
    /\ opsLeft = 0
    /\ anyFailed = FALSE
    /\ overlapped = FALSE
    /\ lastEvent = Event("load", "done", FALSE, FALSE, Null)
    /\ probe \in {Some([stage |-> "task", task |-> t]) : t \in ValidTasks}
             \cup {Some([stage |-> "row", row |-> r]) : r \in RemoteRows}
    /\ selectedTaskIds = {}

\* saveTask builds the row of the task.
probeToStorage ==
    /\ probe # Null /\ probe[1].stage = "task"
    /\ probe' = Some([stage |-> "stored", task |-> probe[1].task,
                      row |-> ToStorage(user[1], probe[1].task)])
    /\ UNCHANGED <<isCloudEnabled, user, tasks, editingTask, isTaskModalOpen, confirmModal,
                   db, localStore, pending, nextId, opsLeft, anyFailed, overlapped, lastEvent,
                   selectedTaskIds>>

\* fetchTasks converts the row.
probeToCanonical ==
    /\ probe # Null /\ probe[1].stage \in {"stored", "row"}
    /\ probe' = Some([stage |-> "fetched", from |-> probe[1], out |-> ConvertRow(probe[1].row)])
    /\ UNCHANGED <<isCloudEnabled, user, tasks, editingTask, isTaskModalOpen, confirmModal,
                   db, localStore, pending, nextId, opsLeft, anyFailed, overlapped, lastEvent,
                   selectedTaskIds>>

NextNorm == probeToStorage \/ probeToCanonical

SpecNorm == InitNorm /\ [][NextNorm]_vars

-----------------------------------------------------------------------------
(* The task form alone: Save pressed with and without a title *)

NextForm ==
    \/ openCreateModal
    \/ \E i \in DOMAIN tasks : openEditModal(tasks[i])
    \/ closeTaskModal
    \/ \E input \in FormInputs(editingTask # Null) \cup BlankTitleInputs :
          handleCreateOrUpdateTask(input)
    \/ \E input \in FormInputs(editingTask # Null) \cup BlankTitleInputs :
          submitRejected(input)
    \/ \E p \in pending : submitSaved(p)
    \/ \E p \in pending : submitFailed(p)

SpecForm == Init /\ [][NextForm]_vars

-----------------------------------------------------------------------------
(* Edits alone: status and subtask toggles and the answers to their saves *)

NextEdits ==
    \/ \E i \in DOMAIN tasks : \E arg \in CardStatusArgs(tasks[i]) : handleToggleStatus(arg)
    \/ \E i \in DOMAIN tasks : \E k \in DOMAIN tasks[i].subtasks :
          handleToggleSubtask(tasks[i].id, tasks[i].subtasks[k].id)
    \/ \E p \in pending : editSaved(p)
    \/ \E p \in pending : editFailed(p)

SpecEdits == Init /\ [][NextEdits]_vars

-----------------------------------------------------------------------------
(* The two toggle handlers called with any argument, the id of no task       *)
(* included, on a collection whose tasks are in each status                  *)

ToggleCollections ==
    {<<MkTask(1, 1, "Low", "Pending", 2,
              <<[id |-> 3, title |-> "s", isCompleted |-> FALSE],
                [id |-> 4, title |-> "s", isCompleted |-> TRUE]>>),
       MkTask(2, 2, "Urgent", "Completed", 1, <<>>),
       MkTask(5, 3, "High", "In Progress", 1, <<>>)>>}

\* A task that is in no collection.
AbsentTask == MkTask(9, 1, "Low", "Pending", 1, <<>>)

InitToggles ==
    /\ isCloudEnabled \in BOOLEAN
    /\ user = Some(TheUser)
    /\ tasks \in ToggleCollections
    /\ editingTask = Null
    /\ isTaskModalOpen = FALSE
    /\ confirmModal = Null
    /\ db = IF isCloudEnabled THEN [i \in DOMAIN tasks |-> ToStorage(TheUser, tasks[i])]
            ELSE <<>>
    /\ localStore = IF isCloudEnabled THEN Null ELSE Some(tasks)
    /\ pending = {}
    /\ nextId = 6
    /\ opsLeft = MaxOps
    /\ anyFailed = FALSE
    /\ overlapped = FALSE
    /\ lastEvent = Event("none", "done", FALSE, FALSE, Null)
    /\ probe = Null
    /\ selectedTaskIds = {}

NextToggles ==
    \/ \E i \in DOMAIN tasks : \E arg \in CardStatusArgs(tasks[i]) : handleToggleStatus(arg)
    \/ handleToggleStatus(AbsentTask)
    \/ \E i \in DOMAIN tasks : \E k \in DOMAIN tasks[i].subtasks :
          handleToggleSubtask(tasks[i].id, tasks[i].subtasks[k].id)
    \/ handleToggleSubtask(AbsentTask.id, 3)
    \/ \E p \in pending : editSaved(p)
    \/ \E p \in pending : editFailed(p)

SpecToggles == InitToggles /\ [][NextToggles]_vars

-----------------------------------------------------------------------------
(* Session and load: part_002 auth effect (46-70), load effect (73-79),      *)
(* loadUserData (81-91), handleLogin (94-99), handleLogout (101-107);        *)
(* dataService.ts fetchTasks (179-211)                                       *)

\* The value under the user's localStorage key: <<>> when the key is absent,
\* <<ts>> when its text is the JSON of ts, <<ts, "cut">> when its text is that
\* JSON cut short, which no JSON.parse accepts.
Unparseable(ts) == <<ts, "cut">>

\* JSON.parse(saved)
JsonParse(blob) ==
    IF Len(blob) = 2 THEN [kind |-> "SyntaxError"]
    ELSE [kind |-> "ok", value |-> blob[1]]

\* A faulty fetch that answers a failed select with an empty list.
fetchTasksRemote_EmptyOnError(selectOk, rows, u) ==
    [kind |-> "ok", source |-> IF selectOk THEN "select ok" ELSE "select failed",
     tasks |-> IF selectOk THEN FetchRows(rows, u) ELSE <<>>]

\* fetchTasks, remote branch: what the promise settles to, given whether the
\* select succeeded.
fetchTasksRemote(selectOk, rows, u) ==
    IF ~selectOk THEN [kind |-> "error", source |-> "select failed"]
    ELSE [kind |-> "ok", source |-> "select ok", tasks |-> FetchRows(rows, u)]

\* fetchTasks, local branch: saved ? JSON.parse(saved) : []
fetchTasksLocal(blob) ==
    IF Len(blob) = 0 THEN [kind |-> "ok", source |-> "blob absent", tasks |-> <<>>]
    ELSE LET parsed == JsonParse(blob)
         IN  IF parsed.kind = "ok"
             THEN [kind |-> "ok", source |-> "blob parsed", tasks |-> parsed.value]
             ELSE [kind |-> "error", source |-> "blob unparseable"]

\* loadUserData after the await: setTasks(loadedTasks), or console.error in
\* the catch, which leaves the tasks as they are.
loadSettled(outcome) ==
    /\ tasks' = IF outcome.kind = "ok" THEN outcome.tasks ELSE tasks
    /\ anyFailed' = (anyFailed \/ outcome.kind # "ok")
    /\ lastEvent' = Event("load", IF outcome.kind = "ok" THEN "done" ELSE "failed",
                          FALSE, outcome.kind # "ok", [source |-> outcome.source])

\* setUser(u) with a user object, and the load effect it triggers: in remote
\* mode loadUserData suspends on the select, in local mode it runs to its end.
setUserAndLoad(u) ==
    /\ user' = Some(u)
    /\ IF isCloudEnabled
       THEN /\ pending' = pending \cup {[op |-> "load", seq |-> Now, user |-> u]}
            /\ lastEvent' = Event("load", "start", FALSE, FALSE, Null)
            /\ UNCHANGED <<tasks, anyFailed>>
       ELSE /\ loadSettled(fetchTasksLocal(localStore))
            /\ UNCHANGED pending
    /\ opsLeft' = opsLeft - 1
    /\ overlapped' = (overlapped \/ pending # {})
    /\ UNCHANGED <<isCloudEnabled, editingTask, isTaskModalOpen, confirmModal, db,
                   localStore, nextId, probe, selectedTaskIds>>

\* AuthScreen's onLogin.
handleLogin(u) ==
    /\ user = Null
    /\ opsLeft > 0
    /\ setUserAndLoad(u)

\* The callback of subscribeToAuth with a session: a new user object each time.
authSignedIn(u) ==
    /\ isCloudEnabled
    /\ opsLeft > 0
    /\ setUserAndLoad(u)

\* handleLogout, and the load effect's setTasks([]) for no user.
handleLogout ==
    /\ user # Null
    /\ opsLeft > 0
    /\ user' = Null
    /\ tasks' = <<>>
    /\ selectedTaskIds' = {}
    /\ opsLeft' = opsLeft - 1
    /\ overlapped' = (overlapped \/ pending # {})
    /\ lastEvent' = Event("logout", "done", FALSE, FALSE, Null)
    /\ UNCHANGED <<isCloudEnabled, editingTask, isTaskModalOpen, confirmModal, db,
                   localStore, pending, nextId, anyFailed, probe>>

\* The select was answered with rows.
loadDone(p) ==
    /\ p \in pending /\ p.op = "load"
    /\ loadSettled(fetchTasksRemote(TRUE, db, p.user))
    /\ pending' = pending \ {p}
    /\ UNCHANGED <<isCloudEnabled, user, editingTask, isTaskModalOpen, confirmModal, db,
                   localStore, nextId, opsLeft, overlapped, probe, selectedTaskIds>>

\* The select was answered with an error.
loadFailed(p) ==
    /\ p \in pending /\ p.op = "load"
    /\ loadSettled(fetchTasksRemote(FALSE, db, p.user))
    /\ pending' = pending \ {p}
    /\ UNCHANGED <<isCloudEnabled, user, editingTask, isTaskModalOpen, confirmModal, db,
                   localStore, nextId, opsLeft, overlapped, probe, selectedTaskIds>>

OtherUser == [id |-> "u2"]

\* Tables the remote store may hold: no row, the rows of the user, and those
\* rows with a row of another user between them.
StoredTables ==
    LET ts == StoredCollections
        rowsOf(c) == [i \in DOMAIN c |-> ToStorage(TheUser, c[i])]
    IN  {rowsOf(c) : c \in ts}
        \cup {<<rowsOf(c)[1], ToStorage(OtherUser, MkTask(5, 1, "High", "Pending", 1, <<>>))>>
                \o SubSeq(rowsOf(c), 2, Len(c)) : c \in ts \ {<<>>}}

\* Values the user's localStorage key may hold.
StoredBlobs ==
    {Null} \cup {Some(c) : c \in StoredCollections} \cup
    {Unparseable(c) : c \in StoredCollections \ {<<>>}}

\* Nobody is logged in yet.
InitLoad ==
    /\ isCloudEnabled \in BOOLEAN
    /\ user = Null
    /\ tasks = <<>>
    /\ editingTask = Null
    /\ isTaskModalOpen = FALSE
    /\ confirmModal = Null
    /\ db \in IF isCloudEnabled THEN StoredTables ELSE {<<>>}
    /\ localStore \in IF isCloudEnabled THEN {Null} ELSE StoredBlobs
    /\ pending = {}
    /\ nextId = 6
    /\ opsLeft = MaxOps + 1
    /\ anyFailed = FALSE
    /\ overlapped = FALSE
    /\ lastEvent = Event("logout", "done", FALSE, FALSE, Null)
    /\ probe = Null
    /\ selectedTaskIds = {}

NextLoad ==
    \/ handleLogin(TheUser)
    \/ authSignedIn(TheUser)
    \/ handleLogout
    \/ \E p \in pending : loadDone(p)
    \/ \E p \in pending : loadFailed(p)

SpecLoad == InitLoad /\ [][NextLoad]_vars

-----------------------------------------------------------------------------
(* AI auto-fill: TaskForm.tsx handleAIAutoFill (51-69), geminiService.ts      *)
(* enhanceTaskWithAI (4-103). A message is the sequence of its characters.   *)

\* String.prototype.includes
includes(message, needle) ==
    \E i \in 1..(Len(message) - Len(needle) + 1) :
        SubSeq(message, i, i + Len(needle) - 1) = needle

\* error.status === n, for an error that may have no status.
hasStatus(error, n) == "status" \in DOMAIN error /\ error.status = n

\* "API Key", "permission" and "400", the texts the catch block looks for.
NeedleApiKey ==
    <<"A", "P", "I", " ", "K", "e", "y">>
NeedlePermission ==
    <<"p", "e", "r", "m", "i", "s", "s", "i", "o", "n">>
Needle400 ==
    <<"4", "0", "0">>

\* The errors enhanceTaskWithAI creates itself.
MissingKeyError ==
    [message |->
        <<"A", "P", "I", " ", "K", "e", "y", " ", "i", "s", " ", "m", "i", "s", "s",
          "i", "n", "g", ".", " ", "P", "l", "e", "a", "s", "e", " ", "g", "o", " ",
          "t", "o", " ", "A", "c", "c", "o", "u", "n", "t", " ", "S", "e", "t", "t",
          "i", "n", "g", "s", " ", "-", ">", " ", "A", "I", " ", "C", "o", "n", "f",
          "i", "g", " ", "a", "n", "d", " ", "e", "n", "t", "e", "r", " ", "y", "o",
          "u", "r", " ", "G", "o", "o", "g", "l", "e", " ", "G", "e", "m", "i", "n",
          "i", " ", "A", "P", "I", " ", "K", "e", "y", ".">>]
NoResponseError ==
    [message |->
        <<"N", "o", " ", "r", "e", "s", "p", "o", "n", "s", "e", " ", "r", "e", "c",
          "e", "i", "v", "e", "d", " ", "f", "r", "o", "m", " ", "A", "I", " ", "s",
          "e", "r", "v", "i", "c", "e", ".">>]
InvalidKeyError ==
    [message |->
        <<"I", "n", "v", "a", "l", "i", "d", " ", "A", "P", "I", " ", "K", "e", "y",
          ".", " ", "P", "l", "e", "a", "s", "e", " ", "c", "h", "e", "c", "k", " ",
          "y", "o", "u", "r", " ", "k", "e", "y", " ", "i", "n", " ", "S", "e", "t",
          "t", "i", "n", "g", "s", " ", "-", ">", " ", "A", "I", " ", "C", "o", "n",
          "f", "i", "g", ".">>]
BusyError ==
    [message |->
        <<"F", "a", "i", "l", "e", "d", " ", "t", "o", " ", "g", "e", "n", "e", "r",
          "a", "t", "e", " ", "c", "o", "n", "t", "e", "n", "t", ".", " ", "T", "h",
          "e", " ", "A", "I", " ", "s", "e", "r", "v", "i", "c", "e", " ", "m", "i",
          "g", "h", "t", " ", "b", "e", " ", "b", "u", "s", "y", ",", " ", "p", "l",
          "e", "a", "s", "e", " ", "t", "r", "y", " ", "a", "g", "a", "i", "n", ".">>]
UnexpectedError ==
    [message |->
        <<"U", "n", "e", "x", "p", "e", "c", "t", "e", "d", " ", "e", "r", "r", "o",
          "r", " ", "i", "n", " ", "A", "I", " ", "s", "e", "r", "v", "i", "c", "e",
          ".">>]

\* The SyntaxError of JSON.parse.
SyntaxError ==
    [message |->
        <<"U", "n", "e", "x", "p", "e", "c", "t", "e", "d", " ", "e", "n", "d", " ",
          "o", "f", " ", "J", "S", "O", "N", " ", "i", "n", "p", "u", "t">>]

\* What one generateContent call may come back with: a response whose text is
\* the JSON asked for, is empty, or is JSON cut short; or a rejection with an
\* error of the service: forbidden, a message naming the "API Key", a message
\* naming a "permission", the service's answer to a key it does not accept
\* (HTTP 400), and an overloaded service.
AIAnswers ==
    {[kind |-> "text", text |-> "json"],
     [kind |-> "text", text |-> ""],
     [kind |-> "text", text |-> "cut"],
     [kind |-> "error", error |-> [status |-> 403, message |->
        <<"F", "o", "r", "b", "i", "d", "d", "e", "n">>]],
     [kind |-> "error", error |-> [message |->
        <<"A", "P", "I", " ", "K", "e", "y", " ", "n", "o", "t", " ", "f", "o", "u",
          "n", "d">>]],
     [kind |-> "error", error |-> [message |->
        <<"T", "h", "e", " ", "c", "a", "l", "l", "e", "r", " ", "d", "o", "e", "s",
          " ", "n", "o", "t", " ", "h", "a", "v", "e", " ", "p", "e", "r", "m", "i",
          "s", "s", "i", "o", "n">>]],
     [kind |-> "error", error |-> [status |-> 400, message |->
        <<"4", "0", "0", " ", "A", "P", "I", " ", "k", "e", "y", " ", "n", "o", "t",
          " ", "v", "a", "l", "i", "d", ".", " ", "P", "l", "e", "a", "s", "e", " ",
          "p", "a", "s", "s", " ", "a", " ", "v", "a", "l", "i", "d", " ", "A", "P",
          "I", " ", "k", "e", "y", ".">>]],
     [kind |-> "error", error |-> [status |-> 503, message |->
        <<"T", "h", "e", " ", "m", "o", "d", "e", "l", " ", "i", "s", " ", "o", "v",
          "e", "r", "l", "o", "a", "d", "e", "d">>]]}

\* const maxAttempts = 3
maxAttempts == 3

\* A loop that never gives up.
withinAttempts_Always(attempts) == TRUE

\* attempts < maxAttempts: the loop condition, and the negation of the
\* catch block's attempts >= maxAttempts.
withinAttempts(attempts) == attempts < maxAttempts

\* The catch block's test for an error that is not to be retried (line 83).
isPermissionError(error) ==
    \/ hasStatus(error, 403)
    \/ includes(error.message, NeedleApiKey)
    \/ includes(error.message, NeedlePermission)

\* The error thrown once the attempts are used up (lines 90-94).
finalError(error) ==
    IF includes(error.message, NeedleApiKey) THEN error
    ELSE IF \/ hasStatus(error, 403)
            \/ includes(error.message, NeedlePermission)
            \/ includes(error.message, Needle400)
         THEN InvalidKeyError
         ELSE BusyError

\* What the try block throws on an answer, if anything.
thrownBy(answer) ==
    IF answer.kind = "error" THEN Some(answer.error)
    ELSE IF answer.text = "" THEN Some(NoResponseError)
    ELSE IF answer.text = "cut" THEN Some(SyntaxError)
    ELSE Null

\* enhanceTaskWithAI threw: handleAIAutoFill logs the error and shows its
\* message in the form.
aiFailed(answers, error) ==
    lastEvent' = Event("enhance", "failed", TRUE, TRUE, [answers |-> answers, error |-> error])

\* The AI button is pressed (it is disabled without a title and while a request
\* is running). Without an API key enhanceTaskWithAI throws before any call;
\* with one it enters the loop and suspends on the first generateContent.
handleAIAutoFill(hasKey) ==
    /\ isTaskModalOpen
    /\ opsLeft > 0
    /\ \A p \in pending : p.op # "enhance"
    /\ IF hasKey /\ withinAttempts(0)
       THEN /\ pending' = pending \cup {[op |-> "enhance", seq |-> Now, attempts |-> 0,
                                         answers |-> <<>>, waiting |-> "answer"]}
            /\ lastEvent' = Event("enhance", "start", FALSE, FALSE, [answers |-> <<>>])
       ELSE /\ aiFailed(<<>>, IF hasKey THEN UnexpectedError ELSE MissingKeyError)
            /\ UNCHANGED pending
    /\ opsLeft' = opsLeft - 1
    /\ UNCHANGED <<isCloudEnabled, user, tasks, editingTask, isTaskModalOpen, confirmModal,
                   db, localStore, nextId, anyFailed, overlapped, probe, selectedTaskIds>>

\* generateContent settled with the given answer: the function returns the
\* parsed JSON, or the catch block counts the attempt and rethrows the error,
\* throws the final error, or starts the backoff timer.
aiAnswered(p, answer) ==
    /\ p \in pending /\ p.op = "enhance" /\ p.waiting = "answer"
    /\ LET answers == Append(p.answers, answer)
           thrown == thrownBy(answer)
           attempts == p.attempts + 1
       IN  IF thrown = Null
           THEN /\ pending' = pending \ {p}
                /\ lastEvent' = Event("enhance", "done", FALSE, FALSE, [answers |-> answers])
           ELSE IF isPermissionError(thrown[1])
           THEN /\ pending' = pending \ {p}
                /\ aiFailed(answers, thrown[1])
           ELSE IF ~withinAttempts(attempts)
           THEN /\ pending' = pending \ {p}
                /\ aiFailed(answers, finalError(thrown[1]))
           ELSE /\ pending' = (pending \ {p}) \cup
                        {[p EXCEPT !.attempts = attempts, !.answers = answers,
                                   !.waiting = "timer"]}
                /\ lastEvent' = Event("enhance", "retry", FALSE, TRUE, [answers |-> answers])
    /\ UNCHANGED <<isCloudEnabled, user, tasks, editingTask, isTaskModalOpen, confirmModal,
                   db, localStore, nextId, opsLeft, anyFailed, overlapped, probe,
                   selectedTaskIds>>

\* The backoff timer fired: the loop condition is tested and the next call is
\* made, or the loop is left and line 102 throws.
backoffElapsed(p) ==
    /\ p \in pending /\ p.op = "enhance" /\ p.waiting = "timer"
    /\ IF withinAttempts(p.attempts)
       THEN /\ pending' = (pending \ {p}) \cup {[p EXCEPT !.waiting = "answer"]}
            /\ lastEvent' = Event("enhance", "start", FALSE, FALSE, [answers |-> p.answers])
       ELSE /\ pending' = pending \ {p}
            /\ aiFailed(p.answers, UnexpectedError)
    /\ UNCHANGED <<isCloudEnabled, user, tasks, editingTask, isTaskModalOpen, confirmModal,
                   db, localStore, nextId, opsLeft, anyFailed, overlapped, probe,
                   selectedTaskIds>>

\* The task form is open on a new task.
InitAI ==
    /\ isCloudEnabled \in BOOLEAN
    /\ user = Some(TheUser)
    /\ tasks = <<>>
    /\ editingTask = Null
    /\ isTaskModalOpen = TRUE
    /\ confirmModal = Null
    /\ db = <<>>
    /\ localStore = Null
    /\ pending = {}
    /\ nextId = 4
    /\ opsLeft = MaxOps
    /\ anyFailed = FALSE
    /\ overlapped = FALSE
    /\ lastEvent = Event("none", "done", FALSE, FALSE, Null)
    /\ probe = Null
    /\ selectedTaskIds = {}

NextAI ==
    \/ \E hasKey \in BOOLEAN : handleAIAutoFill(hasKey)
    \/ \E p \in pending : \E answer \in AIAnswers : aiAnswered(p, answer)
    \/ \E p \in pending : backoffElapsed(p)

SpecAI == InitAI /\ [][NextAI]_vars

\* Every generateContent call settles and every backoff timer fires.
SpecAIFair ==
    /\ SpecAI
    /\ WF_vars(\E p \in pending : \E answer \in AIAnswers : aiAnswered(p, answer))
    /\ WF_vars(\E p \in pending : backoffElapsed(p))

-----------------------------------------------------------------------------
(* Account deletion: AccountSettings.tsx handleDeleteAccount (80-85),        *)
(* dataService.ts deleteUserAccount (140-152)                                *)

\* The rows left by delete().eq('user_id', userId).
DeleteByUser(rows, userId) ==
    LET keep == {i \in DOMAIN rows : rows[i].user_id # userId}
        nth(k) == CHOOSE i \in keep : Cardinality({j \in keep : j < i}) = k - 1
    IN  [k \in 1..Cardinality(keep) |-> rows[nth(k)]]

\* onLogout() after deleteUserAccount has returned: handleLogout.
accountDeleted(userId) ==
    /\ user' = Null
    /\ tasks' = <<>>
    /\ selectedTaskIds' = {}
    /\ lastEvent' = Event("deleteAccount", "done", FALSE, FALSE,
                          [userId |-> userId, success |-> TRUE])

\* The user accepts window.confirm. In remote mode deleteUserAccount suspends
\* on the delete; in local mode it removes the user's blob and returns.
handleDeleteAccount ==
    /\ user # Null
    /\ opsLeft > 0
    /\ IF isCloudEnabled
       THEN /\ pending' = pending \cup {[op |-> "deleteAccount", seq |-> Now,
                                         userId |-> user[1].id]}
            /\ lastEvent' = Event("deleteAccount", "start", FALSE, FALSE,
                                  [userId |-> user[1].id])
            /\ UNCHANGED <<user, tasks, selectedTaskIds, localStore>>
       ELSE /\ localStore' = Null
            /\ accountDeleted(user[1].id)
            /\ UNCHANGED pending
    /\ opsLeft' = opsLeft - 1
    /\ overlapped' = (overlapped \/ pending # {})
    /\ UNCHANGED <<isCloudEnabled, editingTask, isTaskModalOpen, confirmModal, db,
                   nextId, anyFailed, probe>>

\* The delete was carried out; { success: true } is returned.
accountDeleteDone(p) ==
    /\ p \in pending /\ p.op = "deleteAccount"
    /\ db' = DeleteByUser(db, p.userId)
    /\ pending' = pending \ {p}
    /\ accountDeleted(p.userId)
    /\ UNCHANGED <<isCloudEnabled, editingTask, isTaskModalOpen, confirmModal,
                   localStore, nextId, opsLeft, anyFailed, overlapped, probe>>

\* The delete was answered with an error, which the awaited result carries and
\* nobody reads; { success: true } is returned all the same.
accountDeleteFailed(p) ==
    /\ p \in pending /\ p.op = "deleteAccount"
    /\ pending' = pending \ {p}
    /\ anyFailed' = TRUE
    /\ accountDeleted(p.userId)
    /\ UNCHANGED <<isCloudEnabled, editingTask, isTaskModalOpen, confirmModal, db,
                   localStore, nextId, opsLeft, overlapped, probe>>

NextAccount ==
    \/ handleLogin(TheUser)
    \/ handleLogout
    \/ \E p \in pending : loadDone(p)
    \/ \E p \in pending : loadFailed(p)
    \/ handleDeleteAccount
    \/ \E p \in pending : accountDeleteDone(p)
    \/ \E p \in pending : accountDeleteFailed(p)

SpecAccount == InitLoad /\ [][NextAccount]_vars

-----------------------------------------------------------------------------
(* Selection and bulk delete: part_002 handleToggleSelection (254-264),      *)
(* handleDeleteSelected (198-216); dataService.ts deleteMultipleTasks        *)
(* (256-261)                                                                 *)

\* A card's checkbox.
handleToggleSelection(id) ==
    /\ NoModal
    /\ selectedTaskIds' = IF id \in selectedTaskIds THEN selectedTaskIds \ {id}
                          ELSE selectedTaskIds \cup {id}
    /\ UNCHANGED <<isCloudEnabled, user, tasks, editingTask, isTaskModalOpen, confirmModal,
                   db, localStore, pending, nextId, opsLeft, anyFailed, overlapped,
                   lastEvent, probe>>

\* The closure passed as onConfirm keeps the tasks, the selection and the user
\* of the render in which the handler was called.
handleDeleteSelected ==
    /\ NoModal
    /\ user # Null
    /\ selectedTaskIds # {}
    /\ confirmModal' = Some([op |-> "deleteMany", ids |-> selectedTaskIds,
                             tasks |-> tasks, user |-> user[1]])
    /\ UNCHANGED <<isCloudEnabled, user, tasks, editingTask, isTaskModalOpen, db,
                   localStore, pending, nextId, opsLeft, anyFailed, overlapped, lastEvent,
                   probe, selectedTaskIds>>

\* A faulty filter that drops every task.
withoutSelected_All(ts, ids) == <<>>

\* tasks.filter(t => !selectedTaskIds.has(t.id))
withoutSelected(ts, ids) == SelectSeq(ts, LAMBDA t : t.id \notin ids)

\* delete().in('id', taskIds)
DeleteByIds(rows, ids) == SelectSeq(rows, LAMBDA r : r.id \notin ids)

\* Confirm: setTasks(updatedTasks), then one deleteMultipleTasks call.  In
\* local mode that call does nothing and the closure runs on: saveAllTasks,
\* setSelectedTaskIds(new Set()).
confirmDeleteSelected ==
    /\ confirmModal # Null /\ confirmModal[1].op = "deleteMany"
    /\ opsLeft > 0
    /\ LET c == confirmModal[1]
           updatedTasks == withoutSelected(c.tasks, c.ids)
       IN  /\ tasks' = updatedTasks
           /\ IF isCloudEnabled
              THEN /\ pending' = pending \cup
                        {[op |-> "deleteMany", seq |-> Now, ids |-> c.ids]}
                   /\ lastEvent' = Event("deleteMany", "start", FALSE, FALSE, [ids |-> c.ids])
                   /\ UNCHANGED <<localStore, selectedTaskIds>>
              ELSE /\ localStore' = Some(updatedTasks)
                   /\ selectedTaskIds' = {}
                   /\ lastEvent' = Event("deleteMany", "done", FALSE, FALSE, [ids |-> c.ids])
                   /\ UNCHANGED pending
    /\ confirmModal' = Null
    /\ opsLeft' = opsLeft - 1
    /\ overlapped' = (overlapped \/ pending # {})
    /\ UNCHANGED <<isCloudEnabled, user, editingTask, isTaskModalOpen, db, nextId,
                   anyFailed, probe>>

\* The bulk delete succeeded; setSelectedTaskIds(new Set()).
deleteManyDone(p) ==
    /\ p \in pending /\ p.op = "deleteMany"
    /\ db' = DeleteByIds(db, p.ids)
    /\ selectedTaskIds' = {}
    /\ pending' = pending \ {p}
    /\ lastEvent' = Event("deleteMany", "done", FALSE, FALSE, [ids |-> p.ids])
    /\ UNCHANGED <<isCloudEnabled, user, tasks, editingTask, isTaskModalOpen,
                   confirmModal, localStore, nextId, opsLeft, anyFailed, overlapped, probe>>

\* The bulk delete failed: console.error in deleteMultipleTasks, which returns
\* normally; the closure runs on to setSelectedTaskIds(new Set()).
deleteManyFailed(p) ==
    /\ p \in pending /\ p.op = "deleteMany"
    /\ selectedTaskIds' = {}
    /\ pending' = pending \ {p}
    /\ anyFailed' = TRUE
    /\ lastEvent' = Event("deleteMany", "failed", FALSE, TRUE, [ids |-> p.ids])
    /\ UNCHANGED <<isCloudEnabled, user, tasks, editingTask, isTaskModalOpen,
                   confirmModal, db, localStore, nextId, opsLeft, overlapped, probe>>

\* Collections of up to three tasks.
BulkCollections ==
    StoredCollections \cup
    {<<MkTask(1, 1, "Low", "Pending", 2, <<>>), MkTask(2, 2, "Urgent", "Completed", 1, <<>>),
       MkTask(3, 3, "High", "Pending", 1, <<>>)>>}

InitBulk ==
    /\ isCloudEnabled \in BOOLEAN
    /\ user = Some(TheUser)
    /\ tasks \in BulkCollections
    /\ editingTask = Null
    /\ isTaskModalOpen = FALSE
    /\ confirmModal = Null
    /\ db = IF isCloudEnabled THEN [i \in DOMAIN tasks |-> ToStorage(TheUser, tasks[i])]
            ELSE <<>>
    /\ localStore = IF isCloudEnabled \/ tasks = <<>> THEN Null ELSE Some(tasks)
    /\ pending = {}
    /\ nextId = 4
    /\ opsLeft = MaxOps
    /\ anyFailed = FALSE
    /\ overlapped = FALSE
    /\ lastEvent = Event("load", "done", FALSE, FALSE, Null)
    /\ probe = Null
    /\ selectedTaskIds = {}

NextBulk ==
    \/ \E i \in DOMAIN tasks : handleToggleSelection(tasks[i].id)
    \/ handleDeleteSelected
    \/ cancelConfirm
    \/ confirmDeleteSelected
    \/ \E p \in pending : deleteManyDone(p)
    \/ \E p \in pending : deleteManyFailed(p)
    \/ \E i \in DOMAIN tasks : handleDeleteTask(tasks[i].id)
    \/ confirmDelete
    \/ \E p \in pending : deleteDone(p)
    \/ \E p \in pending : deleteFailed(p)

SpecBulk == InitBulk /\ [][NextBulk]_vars

-----------------------------------------------------------------------------
(* Import: part_002 parseExcelDate (370-387), handleImportCSV (389-469)      *)

\* Cells of a parsed sheet.  A row is a function from header names to cells;
\* getVal compares headers case-insensitively, so a header is given by its
\* lower-case form.  The text of a tags cell is a sequence of characters, so
\* that it can be split; every other text is a string.
Num(n) == [type |-> "number", num |-> n]
Str(s) == [type |-> "string", str |-> s]
Txt(chars) == [type |-> "text", chars |-> chars]

\* JavaScript truthiness of an optional cell: undefined, "", and 0 are falsy.
Truthy(v) ==
    /\ v # Null
    /\ CASE v[1].type = "number" -> v[1].num # 0
         [] v[1].type = "string" -> v[1].str # ""
         [] v[1].type = "text" -> v[1].chars # <<>>

\* a || b
OrElse(a, b) == IF Truthy(a) THEN a ELSE b

\* getVal(key): the cell under that header, undefined when there is none.
getVal(row, key) == IF key \in DOMAIN row THEN Some(row[key]) ELSE Null

\* parseInt of a cell: the number of a number cell, the number a text starts
\* with, NaN (no value) for any other text.
ParseInt(cell) ==
    CASE cell.type = "number" -> Some(cell.num)
      [] cell.type = "string" /\ cell.str = "0" -> Some(0)
      [] cell.type = "string" /\ cell.str = "9" -> Some(9)
      [] OTHER -> Null

\* String(v) as a sequence of characters.
CharsOf(cell) ==
    CASE cell.type = "text" -> cell.chars
      [] cell.type = "number" /\ cell.num = 5 -> <<"5">>

\* s.split(',')
RECURSIVE SplitComma(_)
SplitComma(chars) ==
    IF \A i \in DOMAIN chars : chars[i] # ","
    THEN <<chars>>
    ELSE LET k == CHOOSE i \in DOMAIN chars :
                     chars[i] = "," /\ \A j \in 1..(i - 1) : chars[j] # ","
         IN  <<SubSeq(chars, 1, k - 1)>> \o SplitComma(SubSeq(chars, k + 1, Len(chars)))

\* t.trim()
RECURSIVE Trim(_)
Trim(chars) ==
    IF chars = <<>> THEN <<>>
    ELSE IF Head(chars) = " " THEN Trim(Tail(chars))
    ELSE IF chars[Len(chars)] = " " THEN Trim(SubSeq(chars, 1, Len(chars) - 1))
    ELSE chars

\* tagsRaw ? String(tagsRaw).split(',').map(t => t.trim()) : []
importTags(row) ==
    LET tagsRaw == getVal(row, "tags")
    IN  IF Truthy(tagsRaw)
        THEN LET parts == SplitComma(CharsOf(tagsRaw[1]))
             IN  [i \in DOMAIN parts |-> Trim(parts[i])]
        ELSE <<>>

\* parseExcelDate: the current instant for a falsy value, the instant of an
\* Excel serial date for a number.
parseExcelDate(dateVal, now) ==
    IF ~Truthy(dateVal) THEN now
    ELSE (dateVal[1].num - 25569) * 86400 * 1000

\* parseInt(getVal('s.no') || getVal('serial') || '0')
csvSerial(row) ==
    ParseInt(OrElse(OrElse(getVal(row, "s.no"), getVal(row, "serial")), Some(Str("0")))[1])

\* csvSerial > 0, which is false for NaN
HasCsvSerial(row) == csvSerial(row) # Null /\ csvSerial(row)[1] > 0

\* The task pushed for one row.
importTask(row, serialNumber, id, now) ==
    [id |-> id,
     serialNumber |-> serialNumber,
     title |-> OrElse(getVal(row, "title"), Some(Str("Untitled Task")))[1].str,
     description |-> "",
     priority |-> OrElse(getVal(row, "priority"), Some(Str("Medium")))[1].str,
     status |-> OrElse(getVal(row, "status"), Some(Str("Pending")))[1].str,
     dueDate |-> parseExcelDate(OrElse(getVal(row, "due date"), getVal(row, "due")), now),
     createdAt |-> now,
     subtasks |-> <<>>,
     tags |-> importTags(row),
     images |-> <<>>,
     progressNotes |-> ""]

\* A faulty loop that never advances maxSerial.
RECURSIVE importRows_SameSerial(_, _, _, _)
importRows_SameSerial(rows, maxSerial, firstId, now) ==
    IF rows = <<>> THEN <<>>
    ELSE LET row == Head(rows)
             serialNumber == IF HasCsvSerial(row) THEN csvSerial(row)[1] ELSE maxSerial + 1
         IN  <<importTask(row, serialNumber, firstId, now)>>
             \o importRows_SameSerial(Tail(rows), maxSerial, firstId + 1, now)

\* json.forEach(row => ...): one task per row, maxSerial running along.
RECURSIVE importRows(_, _, _, _)
importRows(rows, maxSerial, firstId, now) ==
    IF rows = <<>> THEN <<>>
    ELSE LET row == Head(rows)
             auto == ~HasCsvSerial(row)
             serialNumber == IF auto THEN maxSerial + 1 ELSE csvSerial(row)[1]
         IN  <<importTask(row, serialNumber, firstId, now)>>
             \o importRows(Tail(rows), IF auto THEN maxSerial + 1 ELSE maxSerial,
                           firstId + 1, now)

\* tasks.length > 0 ? Math.max(...tasks.map(t => t.serialNumber)) : 0
maxSerialOf(ts) ==
    IF ts = <<>> THEN 0
    ELSE CHOOSE m \in {ts[i].serialNumber : i \in DOMAIN ts} :
            \A i \in DOMAIN ts : ts[i].serialNumber <= m

\* The file input's onChange: the closure passed as onConfirm keeps the file,
\* the tasks and the user of the render in which the handler was called.
handleImportCSV(file) ==
    /\ NoModal
    /\ user # Null
    /\ opsLeft > 0
    /\ confirmModal' = Some([op |-> "import", rows |-> file, tasks |-> tasks,
                             user |-> user[1]])
    /\ UNCHANGED <<isCloudEnabled, user, tasks, editingTask, isTaskModalOpen, db,
                   localStore, pending, nextId, opsLeft, anyFailed, overlapped, lastEvent,
                   probe, selectedTaskIds>>

\* Confirm, and the reader's onload: the tasks are built, setTasks([...tasks,
\* ...newTasks]), then the loop awaits saveTask of the first new task; in local
\* mode saveTask does nothing and saveAllTasks follows the loop.
confirmImport ==
    /\ confirmModal # Null /\ confirmModal[1].op = "import"
    /\ opsLeft > 0
    /\ LET c == confirmModal[1]
           newTasks == importRows(c.rows, maxSerialOf(c.tasks), nextId + 1, Now)
           updatedTasks == c.tasks \o newTasks
           data == [ids |-> IdsOf(newTasks), rows |-> c.rows, before |-> c.tasks]
       IN  /\ tasks' = updatedTasks
           /\ nextId' = nextId + Len(newTasks)
           /\ IF isCloudEnabled /\ newTasks # <<>>
              THEN /\ pending' = pending \cup
                         {[op |-> "import", seq |-> Now, user |-> c.user,
                           rows |-> c.rows, tasks |-> c.tasks,
                           target |-> newTasks, next |-> 1]}
                   /\ lastEvent' = Event("import", "start", FALSE, FALSE, data)
                   /\ UNCHANGED localStore
              ELSE /\ localStore' = IF isCloudEnabled THEN localStore ELSE Some(updatedTasks)
                   /\ lastEvent' = Event("import", "done", FALSE, FALSE, data)
                   /\ UNCHANGED pending
    /\ confirmModal' = Null
    /\ opsLeft' = opsLeft - 1
    /\ overlapped' = (overlapped \/ pending # {})
    /\ UNCHANGED <<isCloudEnabled, user, editingTask, isTaskModalOpen, db, anyFailed,
                   probe, selectedTaskIds>>

\* One saveTask of the loop resolved: the row is upserted and the loop awaits
\* the next task's saveTask, or ends.
importSaved(p) ==
    /\ p \in pending /\ p.op = "import"
    /\ db' = Upsert(db, ToStorage(p.user, p.target[p.next]))
    /\ LET data == [ids |-> IdsOf(p.target), rows |-> p.rows, before |-> p.tasks]
       IN  IF p.next < Len(p.target)
           THEN /\ pending' = (pending \ {p}) \cup {[p EXCEPT !.next = @ + 1]}
                /\ lastEvent' = Event("import", "saving", FALSE, FALSE, data)
           ELSE /\ pending' = pending \ {p}
                /\ lastEvent' = Event("import", "done", FALSE, FALSE, data)
    /\ UNCHANGED <<isCloudEnabled, user, tasks, editingTask, isTaskModalOpen,
                   confirmModal, localStore, nextId, opsLeft, anyFailed, overlapped, probe,
                   selectedTaskIds>>

\* One saveTask of the loop threw: the catch writes console.error and raises
\* the alert; the remaining tasks are not saved.
importFailed(p) ==
    /\ p \in pending /\ p.op = "import"
    /\ pending' = pending \ {p}
    /\ anyFailed' = TRUE
    /\ lastEvent' = Event("import", "failed", TRUE, TRUE,
                          [ids |-> IdsOf(p.target), rows |-> p.rows, before |-> p.tasks])
    /\ UNCHANGED <<isCloudEnabled, user, tasks, editingTask, isTaskModalOpen,
                   confirmModal, db, localStore, nextId, opsLeft, overlapped, probe,
                   selectedTaskIds>>

\* Rows of a sheet: with and without a title, a serial number, a priority, a
\* status and tags, recognised and not.
ImportRows ==
    {[title |-> Str("a")],
     ("title" :> Str("a")) @@ ("s.no" :> Num(9)) @@ ("priority" :> Str("High"))
        @@ ("status" :> Str("Completed"))
        @@ ("tags" :> Txt(<<"x", ",", " ", "y", " ">>)),
     [title |-> Str(""), serial |-> Str("abc")],
     [priority |-> Str("Critical"), status |-> Str("Done")],
     [title |-> Str("b"), tags |-> Txt(<<"x", ",", " ", ",">>)],
     ("title" :> Str("b")) @@ ("s.no" :> Num(0)) @@ ("serial" :> Num(2))
        @@ ("tags" :> Num(5)),
     ("title" :> Str("b")) @@ ("s.no" :> Num(-1)) @@ ("priority" :> Str(""))
        @@ ("tags" :> Txt(<<>>)) @@ ("due" :> Num(25570))}

MaxRows == 2       \* rows of an imported sheet

ImportFiles == UNION {[1..n -> ImportRows] : n \in 0..MaxRows}

\* Collections the import is added to.
ImportCollections ==
    StoredCollections \cup {<<MkTask(1, 7, "Low", "Pending", 2, <<>>)>>}

InitImport ==
    /\ isCloudEnabled \in BOOLEAN
    /\ user = Some(TheUser)
    /\ tasks \in ImportCollections
    /\ editingTask = Null
    /\ isTaskModalOpen = FALSE
    /\ confirmModal = Null
    /\ db = IF isCloudEnabled THEN [i \in DOMAIN tasks |-> ToStorage(TheUser, tasks[i])]
            ELSE <<>>
    /\ localStore = IF isCloudEnabled \/ tasks = <<>> THEN Null ELSE Some(tasks)
    /\ pending = {}
    /\ nextId = 4
    /\ opsLeft = 1
    /\ anyFailed = FALSE
    /\ overlapped = FALSE
    /\ lastEvent = Event("load", "done", FALSE, FALSE, Null)
    /\ probe = Null
    /\ selectedTaskIds = {}

NextImport ==
    \/ \E file \in ImportFiles : handleImportCSV(file)
    \/ cancelConfirm
    \/ confirmImport
    \/ \E p \in pending : importSaved(p)
    \/ \E p \in pending : importFailed(p)

SpecImport == InitImport /\ [][NextImport]_vars

-----------------------------------------------------------------------------
(* Export: part_002 handleExportCSV (331-367) *)

\* x placed in the sequence acc, sorted by serial number, behind every element
\* whose serial number is not greater.
InsertBySerial(acc, x) ==
    LET before == {i \in DOMAIN acc : x.serialNumber - acc[i].serialNumber < 0}
    IN  IF before = {} THEN Append(acc, x)
        ELSE LET k == CHOOSE i \in before : \A j \in before : i <= j
             IN  SubSeq(acc, 1, k - 1) \o <<x>> \o SubSeq(acc, k, Len(acc))

\* ts.sort((a, b) => a.serialNumber - b.serialNumber): a stable sort.
RECURSIVE SortBySerial(_)
SortBySerial(ts) ==
    IF ts = <<>> THEN <<>>
    ELSE InsertBySerial(SortBySerial(SubSeq(ts, 1, Len(ts) - 1)), ts[Len(ts)])

\* The rows written to the file.
ExportedRows(ts) ==
    [i \in DOMAIN ts |-> [serialNumber |-> ts[i].serialNumber, title |-> ts[i].title,
                          priority |-> ts[i].priority, status |-> ts[i].status]]

\* tasksToExport is a new array when tasks are selected (filter) and the state
\* array itself when none is; sort works in place on it. Nothing is
\* exported from an empty array: the 'Export Failed' dialog is shown.
handleExportCSV ==
    /\ NoModal
    /\ user # Null
    /\ opsLeft > 0
    /\ LET tasksToExport == IF selectedTaskIds # {}
                            THEN SelectSeq(tasks, LAMBDA t : t.id \in selectedTaskIds)
                            ELSE tasks
           sorted == SortBySerial(tasksToExport)
       IN  IF tasksToExport = <<>>
           THEN /\ confirmModal' = Some([op |-> "exportFailed"])
                /\ lastEvent' = Event("export", "failed", TRUE, FALSE, Null)
                /\ UNCHANGED tasks
           ELSE /\ tasks' = IF selectedTaskIds # {} THEN tasks ELSE sorted
                /\ lastEvent' = Event("export", "done", FALSE, FALSE,
                                      [rows |-> ExportedRows(sorted)])
                /\ UNCHANGED confirmModal
    /\ opsLeft' = opsLeft - 1
    /\ UNCHANGED <<isCloudEnabled, user, editingTask, isTaskModalOpen, db, localStore,
                   pending, nextId, anyFailed, overlapped, probe, selectedTaskIds>>

\* The button of the 'Export Failed' dialog: onConfirm does nothing.
confirmExportFailed ==
    /\ confirmModal # Null /\ confirmModal[1].op = "exportFailed"
    /\ confirmModal' = Null
    /\ UNCHANGED <<isCloudEnabled, user, tasks, editingTask, isTaskModalOpen, db,
                   localStore, pending, nextId, opsLeft, anyFailed, overlapped, lastEvent,
                   probe, selectedTaskIds>>

\* Collections in and out of the order of their serial numbers.
ExportCollections ==
    BulkCollections \cup
    {<<MkTask(1, 3, "Low", "Pending", 2, <<>>), MkTask(2, 1, "Urgent", "Completed", 1, <<>>),
       MkTask(3, 2, "High", "Pending", 1, <<>>)>>}

InitExport ==
    /\ isCloudEnabled \in BOOLEAN
    /\ user = Some(TheUser)
    /\ tasks \in ExportCollections
    /\ editingTask = Null
    /\ isTaskModalOpen = FALSE
    /\ confirmModal = Null
    /\ db = IF isCloudEnabled THEN [i \in DOMAIN tasks |-> ToStorage(TheUser, tasks[i])]
            ELSE <<>>
    /\ localStore = IF isCloudEnabled \/ tasks = <<>> THEN Null ELSE Some(tasks)
    /\ pending = {}
    /\ nextId = 4
    /\ opsLeft = MaxOps
    /\ anyFailed = FALSE
    /\ overlapped = FALSE
    /\ lastEvent = Event("none", "done", FALSE, FALSE, Null)
    /\ probe = Null
    /\ selectedTaskIds = {}

NextExport ==
    \/ \E i \in DOMAIN tasks : handleToggleSelection(tasks[i].id)
    \/ handleExportCSV
    \/ confirmExportFailed
    \/ cancelConfirm

SpecExport == InitExport /\ [][NextExport]_vars

-----------------------------------------------------------------------------
(* Properties *)

\* What fetchTasks would return for the active user.
PersistedTasks ==
    IF isCloudEnabled THEN FetchRows(db, user[1])
    ELSE IF localStore = Null THEN <<>> ELSE localStore[1]

SameCollection(a, b) == Len(a) = Len(b) /\ RangeOf(a) = RangeOf(b)

SerialsOf(ts) == {<<ts[i].id, ts[i].serialNumber>> : i \in DOMAIN ts}

RowsOfId(rows, id) == {i \in DOMAIN rows : rows[i].id = id}

C2_RenumberTotal ==
    lastEvent.op = "renumber"
        => /\ Len(tasks) = Len(probe[1])
           /\ {tasks[i].serialNumber : i \in DOMAIN tasks} = 1..Len(tasks)

C2_Witness ==
    /\ lastEvent.op = "renumber"
    /\ Len(tasks) = 3
    /\ \A i \in DOMAIN probe[1] : probe[1][i].serialNumber = 7

ClaimedWeight(p) ==
    CASE p = "Urgent" -> 4 [] p = "High" -> 3 [] p = "Medium" -> 2 [] p = "Low" -> 1

PositionIn(ts, id) == CHOOSE i \in DOMAIN ts : ts[i].id = id

\* C3: renumber keeps the tasks (same ids, every field but serialNumber as it
\* was), orders them by priority weight descending, then due date ascending,
\* then by their original relative order, and gives the i-th task serial i.
C3_RenumberOrder ==
    lastEvent.op = "renumber" =>
        LET input == probe[1]
        IN  /\ Len(tasks) = Len(input)
            /\ \A i \in DOMAIN tasks :
                  /\ tasks[i].serialNumber = i
                  /\ \E k \in DOMAIN input :
                        tasks[i] = [input[k] EXCEPT !.serialNumber = i]
            /\ \A i, j \in DOMAIN tasks :
                  i < j =>
                    LET a == tasks[i]
                        b == tasks[j]
                    IN  \/ ClaimedWeight(a.priority) > ClaimedWeight(b.priority)
                        \/ /\ a.priority = b.priority
                           /\ a.dueDate < b.dueDate
                        \/ /\ a.priority = b.priority
                           /\ a.dueDate = b.dueDate
                           /\ PositionIn(input, a.id) < PositionIn(input, b.id)

\* The example of the claim: [Low, Urgent, Medium] with equal due dates.
C3_Witness ==
    /\ lastEvent.op = "renumber"
    /\ Len(probe[1]) = 3
    /\ [i \in 1..3 |-> probe[1][i].priority] = <<"Low", "Urgent", "Medium">>
    /\ \A i \in 1..3 : probe[1][i].dueDate = 1
    /\ [i \in 1..3 |-> tasks[i].id] = <<2, 3, 1>>
    /\ [i \in 1..3 |-> tasks[i].serialNumber] = <<1, 2, 3>>

\* C4: renumber is all-or-nothing: once no save of a renumber is in flight, no
\* collection is left with only some tasks renumbered: the in-memory tasks all
\* carry their new serial numbers or all their old ones, and so do the
\* persisted ones.
C4_AllOrNothing ==
    LET old == SerialsOf(probe[1])
        new == SerialsOf(renumberedTasks(probe[1]))
    IN  pending = {} =>
            /\ SerialsOf(tasks) \in {old, new}
            /\ SerialsOf(PersistedTasks) \in {old, new}

SavesTask(p) == p.op \in {"create", "update", "toggleStatus", "toggleSubtask", "renumber"}
SavedTask(p) == IF p.op = "renumber" THEN p.target[p.next] ELSE p.task

\* C5: in remote mode, issuing the upsert of a create or update leaves the
\* in-memory collection as it is; when the upsert fails the collection stays
\* unchanged (the created task is not in it, the updated task keeps its
\* fields), the store is untouched and the user gets an alert; the collection
\* takes the new value only in the step in which the upsert has succeeded.
C5_BlockingSave ==
    [][/\ \A p \in pending \cup pending' :
            p.op \in {"create", "update"} =>
              /\ (p \in pending' \ pending) => tasks' = tasks
              /\ (p \in pending \ pending' /\ lastEvent'.phase = "failed") =>
                    /\ tasks' = tasks
                    /\ db' = db
                    /\ lastEvent'.alert
                    /\ (p.op = "create" => p.task.id \notin IdsOf(tasks'))
              /\ (p \in pending \ pending' /\ lastEvent'.phase = "done") =>
                    /\ tasks' = p.updatedTasks
                    /\ \E i \in DOMAIN db' : ToCanonical(db'[i]) = p.task
       /\ (isCloudEnabled /\ tasks' # tasks /\ lastEvent'.op \in {"create", "update"}) =>
             /\ lastEvent'.phase = "done"
             /\ \E p \in pending \ pending' :
                   /\ p.op = lastEvent'.op
                   /\ \E i \in DOMAIN db' : ToCanonical(db'[i]) = p.task]_vars

C5_Witness ==
    /\ isCloudEnabled
    /\ lastEvent.op = "update" /\ lastEvent.phase = "failed" /\ lastEvent.alert
    /\ isTaskModalOpen
    /\ \E i \in DOMAIN tasks :
          tasks[i].id = lastEvent.data.id /\ tasks[i].priority # "Urgent"

\* C6: in remote mode deleteOne and toggleStatus put the new collection in
\* memory in the step that issues the persistence call, before the store
\* answers; when the call fails the failure is written to the console only:
\* the collection stays at its new value, the store is untouched and no alert
\* is raised.
C6_OptimisticNoRollback ==
    [][\A p \in pending \cup pending' :
          p.op \in {"deleteOne", "toggleStatus"} =>
            /\ (p \in pending' \ pending) =>
                  /\ db' = db
                  /\ IF p.op = "deleteOne" THEN p.id \notin IdsOf(tasks')
                     ELSE p.task \in RangeOf(tasks')
            /\ (p \in pending \ pending' /\ lastEvent'.phase = "failed") =>
                  /\ tasks' = tasks
                  /\ db' = db
                  /\ ~lastEvent'.alert
                  /\ lastEvent'.log]_vars

\* A failed toggle: the task in memory has the new status, its row the old one.
C6_Witness ==
    /\ isCloudEnabled /\ pending = {}
    /\ lastEvent.op = "toggleStatus" /\ lastEvent.phase = "failed"
    /\ ~lastEvent.alert
    /\ \E i \in DOMAIN tasks : \E k \in DOMAIN db :
          /\ tasks[i].id = lastEvent.data.id
          /\ db[k].id = tasks[i].id
          /\ db[k].status # tasks[i].status

\* C7: in remote mode edits of one task are written in the order they were
\* made: once every save of a run of toggles has succeeded, each persisted
\* record equals its in-memory task.
C7_SerializedEdits ==
    (pending = {} /\ ~anyFailed) => SameCollection(PersistedTasks, tasks)

\* C8: the store holds at most one record per task id in every state, and a
\* save of a task, however often it was saved before, leaves exactly one record
\* of its id, whose content is the task.
C8_UpsertIdempotent ==
    [][/\ \A i, j \in DOMAIN db' : db'[i].id = db'[j].id => i = j
       /\ \A p \in pending \ pending' :
             (SavesTask(p) /\ lastEvent'.phase \in {"saving", "done"}) =>
                 /\ Cardinality(RowsOfId(db', SavedTask(p).id)) = 1
                 /\ \A i \in RowsOfId(db', SavedTask(p).id) :
                       ToCanonical(db'[i]) = SavedTask(p)]_vars

\* A task that had its record from the start has been saved again, twice.
C8_Witness ==
    /\ isCloudEnabled /\ pending = {} /\ ~anyFailed
    /\ opsLeft = 0
    /\ lastEvent.op = "toggleStatus" /\ lastEvent.phase = "done"
    /\ lastEvent.data.id = 1
    /\ Cardinality(RowsOfId(db, 1)) = 1
    /\ Len(db) = 2
    /\ \A i \in DOMAIN tasks : tasks[i].id = 1 => tasks[i].status = "Pending"

\* C9: a valid task converted to its remote row and back is the task itself,
\* field by field (its lists and notes, empty or not, as they were).
C9_RoundTrip ==
    (probe # Null /\ probe[1].stage = "fetched" /\ probe[1].from.stage = "stored") =>
        /\ probe[1].out.kind = "task"
        /\ probe[1].out.task = probe[1].from.task

C9_Witness ==
    /\ probe # Null /\ probe[1].stage = "fetched" /\ probe[1].from.stage = "stored"
    /\ probe[1].from.task.tags = <<>>
    /\ probe[1].from.task.progressNotes = ""
    /\ probe[1].from.task.subtasks # <<>>
    /\ probe[1].out.task.description = "d"

\* C10: converting a row that lacks id or title fails with a
\* MalformedRecordError, and a row that lacks only optional columns converts
\* to a task in which those fields are empty.
C10_MalformedRejected ==
    (probe # Null /\ probe[1].stage = "fetched" /\ probe[1].from.stage = "row") =>
        LET row == probe[1].from.row
            out == probe[1].out
        IN  IF {"id", "title"} \subseteq DOMAIN row
            THEN /\ out.kind = "task"
                 /\ \A f \in ListFields :
                       ColumnOf(f) \notin DOMAIN row => out.task[f] = <<>>
                 /\ "progress_notes" \notin DOMAIN row => out.task.progressNotes = ""
            ELSE out.kind = "MalformedRecordError"

C12_LocalFetchTotal ==
    (~isCloudEnabled /\ lastEvent.op = "load") =>
        /\ lastEvent.phase = "done"
        /\ ~lastEvent.log
        /\ tasks = IF lastEvent.data.source = "blob parsed" THEN localStore[1] ELSE <<>>

\* C13: confirming a bulk delete of the ids takes out of the in-memory
\* collection exactly the tasks with one of those ids, the others staying as
\* they are and in their order, and in remote mode it issues one
\* persistence call, a bulk delete of all the ids, which on success removes
\* from the table the rows of those ids and no other.
C13_DeleteManyExact ==
    [][/\ (confirmModal # Null /\ confirmModal' = Null /\ lastEvent' # lastEvent
             /\ lastEvent'.op = "deleteMany") =>
            LET ids == confirmModal[1].ids
            IN  /\ \A t \in RangeOf(tasks) : t.id \notin ids <=> t \in RangeOf(tasks')
                /\ \A i, j \in DOMAIN tasks' :
                      i < j => PositionIn(tasks, tasks'[i].id) < PositionIn(tasks, tasks'[j].id)
                /\ Len(tasks') = Cardinality({i \in DOMAIN tasks : tasks[i].id \notin ids})
                /\ db' = db
                /\ IF isCloudEnabled
                   THEN /\ Cardinality(pending' \ pending) = 1
                        /\ \A p \in pending' \ pending : p.op = "deleteMany" /\ p.ids = ids
                   ELSE pending' = pending
       /\ \A p \in pending \ pending' :
             (p.op = "deleteMany" /\ lastEvent'.phase = "done") =>
                 /\ \A i \in DOMAIN db : db[i].id \notin p.ids <=> db[i] \in RangeOf(db')
                 /\ Len(db') = Cardinality({i \in DOMAIN db : db[i].id \notin p.ids})
                 /\ tasks' = tasks]_vars

\* Two of three tasks were deleted in one remote bulk delete; the middle one stays.
C13_Witness ==
    /\ isCloudEnabled /\ pending = {} /\ ~anyFailed
    /\ lastEvent.op = "deleteMany" /\ lastEvent.phase = "done"
    /\ lastEvent.data.ids = {1, 3}
    /\ IdsOf(tasks) = {2}
    /\ {db[i].id : i \in DOMAIN db} = {2}

\* C14: when the bulk delete fails in remote mode the failure is reported
\* (an alert is raised) and the in-memory collection still holds the selected
\* tasks: no state has them gone from memory, still in the table, and
\* nothing reported.
C14_BulkDeleteFailureReported ==
    (isCloudEnabled /\ lastEvent.op = "deleteMany" /\ lastEvent.phase = "failed") =>
        /\ lastEvent.alert
        /\ \A i \in DOMAIN db :
              db[i].id \in lastEvent.data.ids => db[i].id \in IdsOf(tasks)

\* The input of the last import and the tasks it added: the i-th added task
\* is the one built from the i-th row.
ImportedRows == lastEvent.data.rows
ImportedInto == lastEvent.data.before
ImportedTasks == SubSeq(tasks, Len(ImportedInto) + 1, Len(tasks))

\* C15: an import commits as a whole or not at all: once it has ended, no
\* state has all the imported tasks in memory while some of them, but not all,
\* are persisted.
C15_ImportAtomic ==
    (pending = {} /\ lastEvent.op = "import") =>
        LET ids == lastEvent.data.ids
            persisted == ids \cap IdsOf(PersistedTasks)
        IN  ~(ids \subseteq IdsOf(tasks) /\ persisted # {} /\ persisted # ids)

\* A row has a resolvable title when it has a title cell that is not empty.
HasTitle(row) == "title" \in DOMAIN row /\ row.title.str # ""

\* C16: an import of k rows of which m have no resolvable title adds exactly
\* k - m tasks, none of them built from a row without a title.
C16_TitlelessRowsDropped ==
    lastEvent.op = "import" =>
        /\ Len(tasks) = Len(ImportedInto)
              + Cardinality({i \in DOMAIN ImportedRows : HasTitle(ImportedRows[i])})
        /\ \A i \in DOMAIN ImportedTasks : ImportedTasks[i].title \in {"a", "b"}

\* A row supplies a serial number when one of its serial columns holds a
\* positive number.
SuppliesSerial(row) ==
    \E key \in {"s.no", "serial"} :
        key \in DOMAIN row /\ row[key].type = "number" /\ row[key].num > 0

C18_ImportEnums ==
    lastEvent.op = "import" =>
        \A i \in DOMAIN ImportedTasks :
            LET row == ImportedRows[i]
                t == ImportedTasks[i]
            IN  /\ t.priority \in Priority
                /\ t.status \in Status
                /\ t.priority = IF "priority" \in DOMAIN row /\ row.priority.str \in Priority
                                THEN row.priority.str ELSE "Medium"
                /\ t.status = IF "status" \in DOMAIN row /\ row.status.str \in Status
                              THEN row.status.str ELSE "Pending"

\* The tags of a cell: the trimmed, non-empty parts of a text, in order; none
\* for a cell that is absent or is no text.
ExpectedTags(row) ==
    IF "tags" \in DOMAIN row /\ row.tags.type = "text"
    THEN LET parts == SplitComma(row.tags.chars)
         IN  SelectSeq([i \in DOMAIN parts |-> Trim(parts[i])], LAMBDA t : t # <<>>)
    ELSE <<>>

\* C19: the tags of an imported task are the trimmed, non-empty parts of the
\* row's comma-separated tags text, in order, and no tag is empty; a row whose
\* tags are absent or no text gives no tags.
C19_ImportTags ==
    lastEvent.op = "import" =>
        \A i \in DOMAIN ImportedTasks :
            /\ ImportedTasks[i].tags = ExpectedTags(ImportedRows[i])
            /\ \A k \in DOMAIN ImportedTasks[i].tags : ImportedTasks[i].tags[k] # <<>>

\* C20: in every state each task in memory has a positive serial number and no
\* two tasks in memory have the same serial number.
C20_SerialsUnique ==
    /\ \A i \in DOMAIN tasks : tasks[i].serialNumber > 0
    /\ \A i, j \in DOMAIN tasks : tasks[i].serialNumber = tasks[j].serialNumber => i = j

-----------------------------------------------------------------------------
IdSeq(ts) == [i \in DOMAIN ts |-> ts[i].id]

CreatedAtOf(ts) == {<<ts[i].id, ts[i].createdAt>> : i \in DOMAIN ts}

\* The collection an operation issued in this step will put in memory: the
\* one it set at once, or the one its persistence call carries.
Issued(op) ==
    {p.updatedTasks : p \in {q \in pending' \ pending : q.op = op}}
    \cup (IF pending' = pending /\ lastEvent' # lastEvent /\ lastEvent'.op = op
             /\ lastEvent'.phase = "done"
          THEN {tasks'} ELSE {})

\* C21: the ids of the in-memory tasks are pairwise distinct; no step gives a
\* task that stays in the collection another createdAt (nor a persisted row
\* another created_at); an update and a toggle leave the sequence of ids as
\* it is, and a renumber keeps the set of ids.
C21_IdentityStable ==
    [][/\ \A i, j \in DOMAIN tasks' : i # j => tasks'[i].id # tasks'[j].id
       /\ \A x \in CreatedAtOf(tasks), y \in CreatedAtOf(tasks') : x[1] = y[1] => x[2] = y[2]
       /\ \A i \in DOMAIN db, j \in DOMAIN db' :
             db[i].id = db'[j].id => db[i].created_at = db'[j].created_at
       /\ \A ts \in Issued("update") :
             IdSeq(ts) = IdSeq(tasks) /\ CreatedAtOf(ts) = CreatedAtOf(tasks)
       /\ (opsLeft' # opsLeft /\ lastEvent'.op \in {"toggleStatus", "toggleSubtask"})
             => IdSeq(tasks') = IdSeq(tasks)
       /\ (opsLeft' # opsLeft /\ lastEvent'.op = "renumber")
             => /\ IdsOf(tasks') = IdsOf(confirmModal[1].tasks)
                /\ CreatedAtOf(tasks') = CreatedAtOf(confirmModal[1].tasks)
      ]_vars

\* An update or a toggle has completed on a task created before the instant
\* of the operation.
C21_Witness ==
    /\ lastEvent.op \in {"update", "toggleStatus", "toggleSubtask"}
    /\ lastEvent.phase = "done"
    /\ Now > 0
    /\ \E i \in DOMAIN tasks : tasks[i].createdAt < Now /\ tasks[i].id = lastEvent.data.id

-----------------------------------------------------------------------------
\* The step is a call of the toggle handler op.
ToggleCall(op) ==
    /\ lastEvent'.op = op
    /\ \/ opsLeft' # opsLeft
       \/ lastEvent'.phase = "ignored" /\ lastEvent' # lastEvent

\* The call has put updatedTasks in memory and issued exactly one save, of the
\* task with the given id as it is in updatedTasks.
OneSaveOf(id) ==
    IF isCloudEnabled
    THEN /\ UNCHANGED <<db, localStore>>
         /\ \E p \in pending' \ pending :
               /\ pending' = pending \cup {p}
               /\ \E i \in DOMAIN tasks' : tasks'[i].id = id /\ p.task = tasks'[i]
    ELSE /\ localStore' = Some(tasks')
         /\ UNCHANGED <<db, pending>>

FlippedSubtasks(subtasks, subtaskId) ==
    [k \in DOMAIN subtasks |->
        IF subtasks[k].id = subtaskId
        THEN [id |-> subtasks[k].id, title |-> subtasks[k].title,
              isCompleted |-> ~subtasks[k].isCompleted]
        ELSE subtasks[k]]

\* C22: a call of toggleSubtask(taskId, subtaskId) with the id of a task of the
\* collection flips isCompleted of that subtask, leaves every other subtask,
\* every other field of the parent (its status too) and every other task as
\* they were, and issues one save; with the id of no task it changes neither
\* the collection nor the store and issues no save.
C22_SubtaskFrame ==
    [][ToggleCall("toggleSubtask") =>
        LET d == lastEvent'.data
        IN  IF d.id \in IdsOf(tasks)
            THEN /\ Len(tasks') = Len(tasks)
                 /\ \A i \in DOMAIN tasks :
                       IF tasks[i].id # d.id THEN tasks'[i] = tasks[i]
                       ELSE /\ DOMAIN tasks'[i] = DOMAIN tasks[i]
                            /\ \A f \in DOMAIN tasks[i] \ {"subtasks"} :
                                  tasks'[i][f] = tasks[i][f]
                            /\ tasks'[i].subtasks = FlippedSubtasks(tasks[i].subtasks, d.subtaskId)
                 /\ OneSaveOf(d.id)
            ELSE UNCHANGED <<tasks, db, localStore, pending>>
      ]_vars

\* The last subtask of a task has been completed and the parent is still
\* not Completed, its other subtask as it was.
C22_Witness ==
    /\ lastEvent.op = "toggleSubtask" /\ lastEvent.phase = "done"
    /\ \E i \in DOMAIN tasks :
          /\ tasks[i].id = lastEvent.data.id
          /\ tasks[i].status = "Pending"
          /\ Len(tasks[i].subtasks) = 2
          /\ \A k \in DOMAIN tasks[i].subtasks : tasks[i].subtasks[k].isCompleted

\* C27: a call of toggleStatus with a task of the collection sets the stored
\* status to Pending if it was Completed and to Completed otherwise when the
\* passed status equals the stored one, and to the passed status when it
\* differs; no other field and no other task changes and one save is issued;
\* with the id of no task nothing changes and no save is issued.
C27_ToggleStatus ==
    [][ToggleCall("toggleStatus") =>
        LET d == lastEvent'.data
        IN  IF d.id \in IdsOf(tasks)
            THEN /\ Len(tasks') = Len(tasks)
                 /\ \A i \in DOMAIN tasks :
                       IF tasks[i].id # d.id THEN tasks'[i] = tasks[i]
                       ELSE /\ DOMAIN tasks'[i] = DOMAIN tasks[i]
                            /\ \A f \in DOMAIN tasks[i] \ {"status"} :
                                  tasks'[i][f] = tasks[i][f]
                            /\ tasks'[i].status =
                                  IF d.status # tasks[i].status THEN d.status
                                  ELSE IF tasks[i].status = "Completed" THEN "Pending"
                                  ELSE "Completed"
                 /\ OneSaveOf(d.id)
            ELSE UNCHANGED <<tasks, db, localStore, pending>>
      ]_vars

\* The start button has been pressed on a Pending task, which is now In
\* Progress.
C27_Witness ==
    /\ lastEvent.op = "toggleStatus" /\ lastEvent.phase \in {"start", "done"}
    /\ "status" \in DOMAIN lastEvent.data
    /\ lastEvent.data.status = "In Progress"
    /\ \E i \in DOMAIN tasks :
          tasks[i].id = lastEvent.data.id /\ tasks[i].status = "In Progress"

-----------------------------------------------------------------------------
\* C23: once deleteUserAccount has reported success for a user, no persisted
\* task of that user remains: no row with the user's id in remote mode, no
\* task blob in local mode.
C23_AccountTasksGone ==
    (lastEvent.op = "deleteAccount" /\ lastEvent.phase = "done" /\ lastEvent.data.success)
        => IF isCloudEnabled
           THEN \A i \in DOMAIN db : db[i].user_id # lastEvent.data.userId
           ELSE localStore = Null

\* C28: whenever no user is active the in-memory collection is empty, and
\* when no load is in flight the collection of an active user holds only
\* tasks fetched for that user.
C28_LoadForActiveUser ==
    /\ user = Null => tasks = <<>>
    /\ (user # Null /\ isCloudEnabled)
          => RangeOf(tasks) \subseteq RangeOf(FetchRows(db, user[1]))

-----------------------------------------------------------------------------
LowerChar(c) ==
    CASE c = "A" -> "a" [] c = "P" -> "p" [] c = "I" -> "i" [] c = "K" -> "k"
      [] c = "F" -> "f" [] c = "T" -> "t" [] OTHER -> c

\* The message mentions the words, in whatever case.
Mentions(message, words) ==
    includes([i \in DOMAIN message |-> LowerChar(message[i])],
             [i \in DOMAIN words |-> LowerChar(words[i])])

\* A failure that is a permission or configuration error: status 403, or a
\* message that mentions the API key or permission.
ConfigurationFailure(answer) ==
    /\ answer.kind = "error"
    /\ \/ hasStatus(answer.error, 403)
       \/ Mentions(answer.error.message, NeedleApiKey)
       \/ Mentions(answer.error.message, NeedlePermission)

\* The answers the running request has had so far, or those of the request
\* that ended last.
AnswersSoFar ==
    IF \E p \in pending : p.op = "enhance"
    THEN (CHOOSE p \in pending : p.op = "enhance").answers
    ELSE IF lastEvent.op = "enhance" THEN lastEvent.data.answers ELSE <<>>

AIRunning == \E p \in pending : p.op = "enhance"

\* C24: a call that failed with a permission or configuration error is the
\* last call of its request, and the request has ended with an error; a
\* request made without an API key ends with an error and no call.
C24_ConfigErrorSurfaces ==
    /\ \A i \in DOMAIN AnswersSoFar :
          ConfigurationFailure(AnswersSoFar[i])
              => /\ i = Len(AnswersSoFar)
                 /\ ~AIRunning
                 /\ lastEvent.phase = "failed"
    /\ (lastEvent.op = "enhance" /\ lastEvent.phase = "failed"
          /\ lastEvent.data.error = MissingKeyError)
          => lastEvent.data.answers = <<>>

IsFailure(answer) == thrownBy(answer) # Null

\* The calls made so far by the request p.
CallsOf(p) == Len(p.answers) + (IF p.waiting = "answer" THEN 1 ELSE 0)

C25_Safe ==
    /\ \A p \in pending : p.op = "enhance" =>
          /\ CallsOf(p) <= 3
          /\ \A i \in DOMAIN p.answers :
                IsFailure(p.answers[i]) /\ ~isPermissionError(thrownBy(p.answers[i])[1])
          /\ p.waiting = "timer" => Len(p.answers) \in {1, 2}
    /\ (lastEvent.op = "enhance" /\ lastEvent.phase \in {"done", "failed"}) =>
          LET answers == lastEvent.data.answers
              n == Len(answers)
          IN  /\ n <= 3
              /\ \A i \in 1..(n - 1) : IsFailure(answers[i])
              /\ lastEvent.phase = "done" => n >= 1 /\ ~IsFailure(answers[n])
              /\ (lastEvent.phase = "failed" /\ n >= 1) =>
                    /\ IsFailure(answers[n])
                    /\ n = 3 \/ isPermissionError(thrownBy(answers[n])[1])

\* C25: a request makes at most 3 calls; a failure of call 1 or 2 that is not
\* a permission error is followed by the backoff and then by exactly one more
\* call; the first response with usable text ends the request with no
\* further call; the third failure in a row ends it with an error; and every
\* request ends.
C25_BoundedRetry ==
    /\ []C25_Safe
    /\ [][\A p \in pending : (p.op = "enhance" /\ p.waiting = "timer") =>
              \E q \in pending' : q.op = "enhance" /\ q.answers = p.answers
                                   /\ (q = p \/ (q.waiting = "answer" /\ CallsOf(q) = CallsOf(p) + 1))]_vars
    /\ (AIRunning ~> ~AIRunning)

\* A request has ended with an error after three failed calls.
C25_Witness ==
    /\ lastEvent.op = "enhance" /\ lastEvent.phase = "failed"
    /\ Len(lastEvent.data.answers) = 3
    /\ lastEvent.data.error = BusyError

-----------------------------------------------------------------------------
TitlesOf(ts) == {ts[i].title : i \in DOMAIN ts}

-----------------------------------------------------------------------------
\* C29: the completion of a create or update that was awaiting its save
\* keeps what other operations did to the collection in the meantime: every
\* other task is in the collection as it was just before, and no task
\* deleted in the meantime comes back.
C29_NoLostUpdate ==
    [][\A p \in pending \ pending' :
          (p.op \in {"create", "update"} /\ lastEvent'.phase = "done") =>
              /\ \A i \in DOMAIN tasks :
                    tasks[i].id # p.task.id => tasks[i] \in RangeOf(tasks')
              /\ IdsOf(tasks') \subseteq IdsOf(tasks) \cup {p.task.id}
      ]_vars

-----------------------------------------------------------------------------
\* C30: an export, with or without a selection, leaves the in-memory
\* collection as it is, the order of its tasks included, leaves the store as
\* it is and issues no persistence call.
C30_ExportFrame ==
    [][(lastEvent'.op = "export" /\ opsLeft' # opsLeft)
          => UNCHANGED <<tasks, db, localStore, pending>>]_vars
====
